---------------------------- MODULE Spec2Model ----------------------------
(***************************************************************************)
(* A model of the ggp load pipeline: the Predictor (hourly weighted        *)
(* statistics with time decay), the events table, the Controller's         *)
(* backfill and live worker, the LoadFetcher and HolidayFetcher workers    *)
(* and main's shutdown sequence.                                           *)
(*                                                                         *)
(* Numbers.  float64 values are modelled in fixed point: the integer v     *)
(* stands for v / Scale.  Products and quotients are rounded down after    *)
(* every operation, as a float operation rounds after every operation.     *)
(* A float the code can make NaN is a record [nan, v].                     *)
(*                                                                         *)
(* Time.  An instant is a number of whole seconds since                    *)
(* 2025-01-01T00:00:00Z (a Wednesday); years have 365 days (2025..2027).   *)
(***************************************************************************)
EXTENDS Integers, Sequences, FiniteSets, TLC

VARIABLES
    \* ---- Predictor
    stats,           \* [dayType, hour] -> HourlyStats
    recentEvents,    \* the recent-events window
    holidayChecker,  \* [nil, fixedHolidays]
    checked,         \* history: the last question put to the holiday checker
    prediction,      \* result of the last Predict or PredictLoad call
    mu,              \* the Predictor's sync.RWMutex: [writer, readers]
    calls,           \* goroutine -> where its call of a Predictor method is
    observed,        \* history: the last read of a cell by a reading method
    \* ---- storage
    events,          \* the events table: a set of rows, timestamp is the key
    saveErr,         \* the error result of the last storage call
    lastSave,        \* history: the last storage call and its arguments
    txOpen,          \* a transaction holds the only connection of the pool
    \* ---- Controller.LoadEvents
    loadPc,          \* "idle", "paging", "done", "failed"
    offset,          \* LoadEvents' offset
    loadSnapshot,    \* history: the events table when LoadEvents was called
    holidays,        \* the holidays table: rows [Year, Month, Day, Title]
    \* ---- the wall clock
    clock,           \* [sec, sub]: whole seconds and the sub-second part
    \* ---- configuration: which components are active
    cfg,
    \* ---- LoadFetcher: Run, Fetch and the worker
    fetcherPc,       \* where Run / the worker is
    fetchCaller,     \* "run": the initial fetch of Run; "worker": a tick's
    fetchLoad,       \* [resp, contentType, load]: the response and getLoad's result
    fetchEvent,      \* the event Fetch has built
    fetchTick,       \* a tick waits in ticker.C
    eventCh,         \* the buffer of the event channel
    eventChClosed,
    fetchDoneCh,     \* closed?
    \* ---- Controller worker, HolidayFetcher worker, main
    controllerPc, predictorCh, holidayerPc, holidayerDoneCh,
    mainPc,
    ctxDone,         \* the process-wide context is cancelled
    \* ---- history (not program state)
    ingested,        \* every AddEvent call, in order: [ev, src]
    sent             \* every event sent on eventCh, in order

vars == <<stats, recentEvents, holidayChecker, checked, prediction, mu,
          calls, observed, events, saveErr,
          lastSave, txOpen, loadPc, offset, loadSnapshot, holidays, clock, cfg,
          fetcherPc, fetchCaller, fetchLoad, fetchEvent, fetchTick, eventCh,
          eventChClosed, fetchDoneCh, controllerPc, predictorCh, holidayerPc,
          holidayerDoneCh, mainPc, ctxDone, ingested, sent>>

lockVars == <<mu, calls, observed>>
predVars == <<stats, recentEvents, holidayChecker, checked, prediction,
              lockVars>>
dbVars == <<events, saveErr, lastSave, txOpen>>
loadVars == <<loadPc, offset, loadSnapshot>>
fetcherVars == <<fetcherPc, fetchCaller, fetchLoad, fetchEvent, fetchTick>>
chanVars == <<eventCh, eventChClosed, sent>>
controllerVars == <<controllerPc, predictorCh>>
holidayerVars == <<holidayerPc, holidayerDoneCh, holidays>>
pipeVars == <<clock, cfg, fetcherVars, chanVars, fetchDoneCh, controllerVars,
              holidayerVars, mainPc, ctxDone>>
runVars == <<clock, cfg, fetcherVars, chanVars, fetchDoneCh, controllerVars,
             holidayerPc, holidayerDoneCh, mainPc, ctxDone>>

-----------------------------------------------------------------------------
(* Bounds of the model *)

\* the number of AddEvent calls of a behaviour of SpecPredictor
MaxIngest == 3

\* the page size of LoadEvents, a scaled stand-in for its const limit = 1000
limit == 2

-----------------------------------------------------------------------------
(* Fixed-point arithmetic *)

Scale == 1000

Min(a, b) == IF a <= b THEN a ELSE b
Max(a, b) == IF a >= b THEN a ELSE b

\* a * b / c without the intermediate product a * b
MulDiv(a, b, c) == (a \div c) * b + ((a % c) * b) \div c

\* exp(-1), exp(-n) for a natural n
ExpMinusOne == 368

RECURSIVE PowE(_)
PowE(n) == IF n = 0 THEN Scale ELSE (PowE(n - 1) * ExpMinusOne) \div Scale

\* exp(-f / Scale) for 0 <= f < Scale, by its Taylor series
ExpNegFrac(f) ==
    LET t2 == (f * f) \div (2 * Scale)
        t3 == (t2 * f) \div (3 * Scale)
        t4 == (t3 * f) \div (4 * Scale)
        t5 == (t4 * f) \div (5 * Scale)
        t6 == (t5 * f) \div (6 * Scale)
    IN  Scale - f + t2 - t3 + t4 - t5 + t6

\* exp(-x / Scale) for x >= 0
ExpNeg(x) == (PowE(x \div Scale) * ExpNegFrac(x % Scale)) \div Scale

\* math.Exp(x / Scale)
Exp(x) == IF x >= 0 /\ ExpNeg(x) > 0 THEN (Scale * Scale) \div ExpNeg(x)
          ELSE IF x >= 0 THEN Scale * Scale
          ELSE ExpNeg(-x)

\* a float64 that may be NaN
Num(v) == [nan |-> FALSE, v |-> v]
NaN == [nan |-> TRUE, v |-> 0]

-----------------------------------------------------------------------------
(* Calendar *)

SecondsPerHour == 3600
SecondsPerDay == 86400
DaysPerYear == 365

MonthLengths == <<31, 28, 31, 30, 31, 30, 31, 31, 30, 31, 30, 31>>

RECURSIVE MonthOf(_, _)
MonthOf(doy, m) ==
    IF doy < MonthLengths[m] THEN <<m, doy + 1>>
    ELSE MonthOf(doy - MonthLengths[m], m + 1)

\* time.Time.Date(): <<month, day>> of the instant t (UTC)
Date(t) == MonthOf((t \div SecondsPerDay) % DaysPerYear, 1)

\* time.Time.Hour()
Hour(t) == (t % SecondsPerDay) \div SecondsPerHour

\* time.Time.Weekday(): Sunday = 0, ..., Saturday = 6; day 0 is a Wednesday
GoWeekday(t) == (3 + t \div SecondsPerDay) % 7

\* the English name of the weekday of t
WeekdayNames == <<"Sunday", "Monday", "Tuesday", "Wednesday", "Thursday",
                  "Friday", "Saturday">>
WeekdayName(t) == WeekdayNames[GoWeekday(t) + 1]

\* the instant of 2025-month-day hh:mm:00 for January..March
At(month, day, hh, mm) ==
    LET before == IF month = 1 THEN 0 ELSE IF month = 2 THEN 31 ELSE 59
    IN  (before + day - 1) * SecondsPerDay + hh * SecondsPerHour + mm * 60

-----------------------------------------------------------------------------
(* DayType: src/predictor/checker_test.go:347-358 *)

Monday == 0
Tuesday == 1
Wednesday == 2
Thursday == 3
Friday == 4
Saturday == 5
Sunday == 6
Holiday == 7

DayTypes == 0 .. 7
Hours == 0 .. 23

\* the DayType constant with the given name
DayTypeNamed(name) ==
    CASE name = "Monday" -> Monday
      [] name = "Tuesday" -> Tuesday
      [] name = "Wednesday" -> Wednesday
      [] name = "Thursday" -> Thursday
      [] name = "Friday" -> Friday
      [] name = "Saturday" -> Saturday
      [] name = "Sunday" -> Sunday

-----------------------------------------------------------------------------
(* RussianHolidayChecker *)

NilChecker == [nil |-> TRUE, fixedHolidays |-> {}]
Checker(set) == [nil |-> FALSE, fixedHolidays |-> set]

\* an IsHoliday that knows the holidays in the year of the epoch only
IsHolidayInFirstYear(c, t) ==
    Date(t) \in c.fixedHolidays /\ t < DaysPerYear * SecondsPerDay

\* RussianHolidayChecker.IsHoliday: the month and day of t are a key of the
\* map
IsHoliday(c, t) == Date(t) \in c.fixedHolidays

\* RussianHolidayChecker.HolidayTitle: the map's value for the month and day
\* of t, the empty string when they are no key of it
HolidayTitle(c, t) ==
    IF Date(t) \in c.fixedHolidays THEN c.titles[Date(t)] ELSE ""

-----------------------------------------------------------------------------
(* Predictor *)

averageLoad == 25000
decayLambda == 100
minWeight == 500
confidenceThreshold == 20000
hoursInDay == 24

\* scaled stand-ins for maxRecentCount = 40 and for the 20 events Predict
\* asks of the window before it applies the trend
maxRecentCount == 4
trendMinCount == 3

ZeroTime == -1

ZeroStats == [LastUpdate |-> ZeroTime, WeightedSum |-> 0, TotalWeight |-> 0,
              Count |-> 0]

NewStats == [c \in DayTypes \X Hours |-> ZeroStats]

\* Event.FloatLoad
FloatLoad(e) == e.Load * Scale

getDayType(c, t) ==
    IF ~c.nil /\ IsHoliday(c, t) THEN Holiday ELSE GoWeekday(t)

\* an AddEvent that did not count the new event's weight
AddToCellNoWeight(s, e) ==
    [LastUpdate |-> e.Timestamp, WeightedSum |-> s.WeightedSum + FloatLoad(e),
     TotalWeight |-> s.TotalWeight, Count |-> s.Count + 1]

\* an AddEvent whose decay step scaled the weighted sum only
AddToCellDecaySumOnly(s, e) ==
    LET secs == e.Timestamp - s.LastUpdate
        decays == s.LastUpdate # ZeroTime /\ secs > 0
        decayFactor == ExpNeg(MulDiv(secs, decayLambda, SecondsPerDay))
        ws == IF decays THEN (s.WeightedSum * decayFactor) \div Scale
              ELSE s.WeightedSum
    IN  [LastUpdate |-> e.Timestamp, WeightedSum |-> ws + FloatLoad(e),
         TotalWeight |-> s.TotalWeight + Scale, Count |-> s.Count + 1]

\* an AddEvent whose decay factor has the wrong sign in the exponent
AddToCellGrowing(s, e) ==
    LET secs == e.Timestamp - s.LastUpdate
        decays == s.LastUpdate # ZeroTime /\ secs > 0
        decayFactor == Exp(MulDiv(secs, decayLambda, SecondsPerDay))
        ws == IF decays THEN (s.WeightedSum * decayFactor) \div Scale
              ELSE s.WeightedSum
        tw == IF decays THEN (s.TotalWeight * decayFactor) \div Scale
              ELSE s.TotalWeight
    IN  [LastUpdate |-> e.Timestamp, WeightedSum |-> ws + FloatLoad(e),
         TotalWeight |-> tw + Scale, Count |-> s.Count + 1]

\* an AddEvent that never moved LastUpdate back
AddToCellKeepLatest(s, e) ==
    LET secs == e.Timestamp - s.LastUpdate
        decays == s.LastUpdate # ZeroTime /\ secs > 0
        decayFactor == ExpNeg(MulDiv(secs, decayLambda, SecondsPerDay))
        ws == IF decays THEN (s.WeightedSum * decayFactor) \div Scale
              ELSE s.WeightedSum
        tw == IF decays THEN (s.TotalWeight * decayFactor) \div Scale
              ELSE s.TotalWeight
    IN  [LastUpdate |-> Max(s.LastUpdate, e.Timestamp),
         WeightedSum |-> ws + FloatLoad(e),
         TotalWeight |-> tw + Scale, Count |-> s.Count + 1]

\* the decay step and the accumulation of AddEvent on one cell
AddToCell(s, e) ==
    LET secs == e.Timestamp - s.LastUpdate
        decays == s.LastUpdate # ZeroTime /\ secs > 0
        decayFactor == ExpNeg(MulDiv(secs, decayLambda, SecondsPerDay))
        ws == IF decays THEN (s.WeightedSum * decayFactor) \div Scale
              ELSE s.WeightedSum
        tw == IF decays THEN (s.TotalWeight * decayFactor) \div Scale
              ELSE s.TotalWeight
    IN  [LastUpdate |-> e.Timestamp, WeightedSum |-> ws + FloatLoad(e),
         TotalWeight |-> tw + Scale, Count |-> s.Count + 1]

\* a window that never dropped its oldest event
PushRecentUnbounded(w, e) == Append(w, e)

PushRecent(w, e) ==
    LET a == Append(w, e)
    IN  IF Len(a) > maxRecentCount THEN Tail(a) ELSE a

\* an AddEvent that decayed every cell of the event's day type, not only
\* the cell of its hour
AddEventStatsDecayRow(st, c, e) ==
    LET dayType == getDayType(c, e.Timestamp)
    IN  [k \in DOMAIN st |->
            IF k = <<dayType, Hour(e.Timestamp)>> THEN AddToCell(st[k], e)
            ELSE IF k[1] = dayType
            THEN LET secs == e.Timestamp - st[k].LastUpdate
                     decays == st[k].LastUpdate # ZeroTime /\ secs > 0
                     decayFactor ==
                         ExpNeg(MulDiv(secs, decayLambda, SecondsPerDay))
                 IN  IF decays
                     THEN [st[k] EXCEPT
                               !.WeightedSum = (@ * decayFactor) \div Scale,
                               !.TotalWeight = (@ * decayFactor) \div Scale]
                     ELSE st[k]
            ELSE st[k]]

AddEventStats(st, c, e) ==
    LET cell == <<getDayType(c, e.Timestamp), Hour(e.Timestamp)>>
    IN  [st EXCEPT ![cell] = AddToCell(st[cell], e)]

getWeightedAverage(st, dayType, hour) ==
    LET s == st[<<dayType, hour>>]
    IN  IF s.TotalWeight < 100 THEN averageLoad
        ELSE (s.WeightedSum * Scale) \div s.TotalWeight

predictWithBlending(st, c, targetTime, hour) ==
    IF ~(~c.nil /\ IsHoliday(c, targetTime))
    THEN getWeightedAverage(st, GoWeekday(targetTime), hour)
    ELSE
        LET holidayStats == st[<<Holiday, hour>>]
            sundayStats == st[<<Sunday, hour>>]
            holidayWeight == holidayStats.TotalWeight
            sundayWeight == (sundayStats.TotalWeight * 500) \div Scale
            totalWeight == holidayWeight + sundayWeight
            holidayAvg == IF holidayStats.TotalWeight > 0
                          THEN (holidayStats.WeightedSum * Scale)
                                   \div holidayStats.TotalWeight
                          ELSE 0
            sundayAvg == IF sundayStats.TotalWeight > 0
                         THEN (sundayStats.WeightedSum * Scale)
                                  \div sundayStats.TotalWeight
                         ELSE 0
        IN  IF totalWeight < 100 THEN averageLoad
            ELSE (holidayAvg * holidayWeight + sundayAvg * sundayWeight)
                     \div totalWeight

RECURSIVE RowSum(_, _, _, _)
RowSum(st, dayOfWeek, h, field) ==
    IF h = hoursInDay THEN 0
    ELSE LET s == st[<<dayOfWeek, h>>]
             v == IF s.TotalWeight > 0 THEN s[field] ELSE 0
         IN  v + RowSum(st, dayOfWeek, h + 1, field)

\* a fallback with no default for an empty row
fallbackPredictionNoDefault(st, dayOfWeek) ==
    LET sum == RowSum(st, dayOfWeek, 0, "WeightedSum")
        weight == RowSum(st, dayOfWeek, 0, "TotalWeight")
    IN  IF weight > 0 THEN (sum * Scale) \div weight ELSE 0

fallbackPrediction(st, dayOfWeek) ==
    LET sum == RowSum(st, dayOfWeek, 0, "WeightedSum")
        weight == RowSum(st, dayOfWeek, 0, "TotalWeight")
    IN  IF weight > 0 THEN (sum * Scale) \div weight ELSE averageLoad

calculateConfidence(s, dayType, now) ==
    LET base0 == Min(Scale, (s.TotalWeight * Scale) \div confidenceThreshold)
        base1 == IF dayType = Holiday THEN (base0 * 700) \div Scale ELSE base0
        freshness == Exp(-MulDiv(now - s.LastUpdate, 50, SecondsPerDay))
    IN  IF s.LastUpdate # ZeroTime THEN (base1 * freshness) \div Scale
        ELSE base1

calculateTrend(w) ==
    LET n == Len(w)
        first == w[1]
        last == w[n]
        hoursDiff == MulDiv(last.Timestamp - first.Timestamp, Scale,
                            SecondsPerHour)
    IN  IF n < 3 THEN 0
        ELSE IF hoursDiff < 100 THEN 0
        ELSE ((FloatLoad(last) - FloatLoad(first)) * Scale) \div hoursDiff


\* a correction whose weight 0.3 / hoursAhead was not multiplied back
TrendCorrectionPerHour(base, trend, hoursAhead) ==
    IF hoursAhead = 0 THEN NaN
    ELSE Num(base + (trend * (300 \div hoursAhead)) \div Scale)

\* the float64 operations of Predict after the base is chosen
TrendCorrection(base, trend, hoursAhead) ==
    IF hoursAhead = 0 THEN NaN   \* 0.3 / 0 = +Inf, and (trend * Inf) * 0 = NaN
    ELSE Num(base + ((trend * (300 \div hoursAhead)) \div Scale) * hoursAhead)

\* max(0.0, min(100.0, x)): Go's min and max return NaN for a NaN argument
Clamp(x) == IF x.nan THEN NaN ELSE Num(Max(0, Min(100 * Scale, x.v)))

Predict(st, w, c, now, hoursAhead) ==
    LET targetTime == now + hoursAhead * SecondsPerHour
        dayType == getDayType(c, targetTime)
        hour == Hour(targetTime)
        s == st[<<dayType, hour>>]
        blended == predictWithBlending(st, c, targetTime, hour)
        sundayStats == st[<<Sunday, hour>>]
        base == IF s.TotalWeight >= minWeight THEN blended
                ELSE IF dayType = Holiday THEN blended
                ELSE fallbackPrediction(st, dayType)
        confidence ==
            IF s.TotalWeight >= minWeight
            THEN calculateConfidence(s, dayType, now)
            ELSE IF dayType = Holiday
            THEN (IF sundayStats.TotalWeight >= minWeight THEN 500 ELSE 300)
            ELSE 300
        corrected == IF hoursAhead <= 3 /\ Len(w) >= trendMinCount
                     THEN TrendCorrection(base, calculateTrend(w), hoursAhead)
                     ELSE Num(base)
    IN  [TargetTime |-> targetTime, Hour |-> hour, Load |-> Clamp(corrected),
         Confidence |-> confidence, IsHoliday |-> (dayType = Holiday),
         dayType |-> dayType, base |-> base, corrected |-> corrected,
         now |-> now, hoursAhead |-> hoursAhead]

NoPrediction == [hoursAhead |-> -1]

\* the checker has not been asked
NoAnswer == [t |-> ZeroTime]

\* the zero sync.RWMutex; the goroutines that call the Predictor's methods,
\* none of them inside a call; no cell has been read
Unlocked == [writer |-> FALSE, readers |-> 0]
Goroutines == {"writer", "reader", "printer"}
Idle == [pc |-> "idle"]
NoRead == [op |-> "none"]

-----------------------------------------------------------------------------
(* Inputs of the Predictor's operations *)

TimestampInputs == {At(1, 1, 10, 0), At(1, 5, 10, 0), At(1, 5, 10, 30),
                    At(3, 20, 10, 0)}
LoadInputs == {30, 40}
EventInputs == [Timestamp : TimestampInputs, Load : LoadInputs]
NowInputs == {At(1, 9, 9, 0), At(1, 16, 9, 0)}
HoursAheadInputs == {0, 1, 255}
CheckerInputs == {NilChecker, Checker({<<1, 1>>, <<1, 9>>})}

-----------------------------------------------------------------------------
(* The state every specification starts from, but for its own part *)

InitPredictor ==
    /\ stats = NewStats
    /\ recentEvents = <<>>
    /\ prediction = NoPrediction
    /\ checked = NoAnswer
    /\ mu = Unlocked
    /\ calls = [g \in Goroutines |-> Idle]
    /\ observed = NoRead
    /\ ingested = <<>>

InitDb ==
    /\ saveErr = FALSE
    /\ lastSave = <<>>
    /\ txOpen = FALSE

InitLoad ==
    /\ loadPc = "idle"
    /\ offset = 0
    /\ loadSnapshot = {}

NoFetch == [resp |-> <<>>, load |-> 0]
NoEvent == [Timestamp |-> ZeroTime, Load |-> 0]
AllActive == [fetcher |-> TRUE, holidayer |-> TRUE, predictor |-> TRUE]

InitPipeIdle ==
    /\ clock = [sec |-> 0, sub |-> 0]
    /\ cfg = AllActive
    /\ holidays = {}
    /\ fetcherPc = "off"
    /\ fetchCaller = "run"
    /\ fetchLoad = NoFetch
    /\ fetchEvent = NoEvent
    /\ fetchTick = FALSE
    /\ eventCh = <<>>
    /\ eventChClosed = FALSE
    /\ fetchDoneCh = FALSE
    /\ controllerPc = "off"
    /\ predictorCh = FALSE
    /\ holidayerPc = "off"
    /\ holidayerDoneCh = FALSE
    /\ mainPc = "off"
    /\ ctxDone = FALSE
    /\ sent = <<>>

-----------------------------------------------------------------------------
(* SpecPredictor: AddEvent and Predict called directly *)

\* Predictor.AddEvent, with the caller recorded in the history
AddEvent(e, src) ==
    /\ stats' = AddEventStats(stats, holidayChecker, e)
    /\ recentEvents' = PushRecent(recentEvents, e)
    /\ ingested' = Append(ingested, [ev |-> e, src |-> src])

AddEventStep ==
    /\ Len(ingested) < MaxIngest
    /\ \E e \in EventInputs : AddEvent(e, "direct")
    /\ prediction' = NoPrediction
    /\ UNCHANGED <<holidayChecker, checked, lockVars, dbVars, loadVars, pipeVars>>

PredictStep ==
    /\ \E now \in NowInputs, h \in HoursAheadInputs :
           prediction' = Predict(stats, recentEvents, holidayChecker, now, h)
    /\ UNCHANGED <<stats, recentEvents, holidayChecker, checked, lockVars, ingested, dbVars,
                   loadVars, pipeVars>>

InitP ==
    /\ InitPredictor
    /\ holidayChecker \in CheckerInputs
    /\ events = {}
    /\ InitDb
    /\ InitLoad
    /\ InitPipeIdle

NextP == AddEventStep \/ PredictStep

SpecPredictor == InitP /\ [][NextP]_vars

-----------------------------------------------------------------------------
(* SpecWindow: long runs of AddEvent on one cell, past the window's capacity *)

MaxWindowIngest == 5

\* weekly events of the same hour and load, and one of another load
WindowEventInputs ==
    {[Timestamp |-> At(1, 5, 10, 0), Load |-> 40],
     [Timestamp |-> At(1, 12, 10, 0), Load |-> 40],
     [Timestamp |-> At(1, 19, 10, 0), Load |-> 40],
     [Timestamp |-> At(1, 12, 10, 30), Load |-> 30]}

AddEventWindowStep ==
    /\ Len(ingested) < MaxWindowIngest
    /\ \E e \in WindowEventInputs : AddEvent(e, "direct")
    /\ UNCHANGED <<holidayChecker, checked, lockVars, prediction, dbVars, loadVars, pipeVars>>

SpecWindow == InitP /\ [][AddEventWindowStep]_vars

-----------------------------------------------------------------------------
(* SpecTrend: Predict over windows with rising, falling and flat trends *)

\* events of one hour, three minutes, half an hour and a week apart, in any
\* order of arrival
TrendIngestStep ==
    /\ Len(ingested) < MaxIngest
    /\ \E t \in {At(1, 5, 10, 0), At(1, 5, 10, 3), At(1, 5, 10, 30),
                 At(1, 12, 10, 0)}, l \in {30, 40} :
           AddEvent([Timestamp |-> t, Load |-> l], "direct")
    /\ prediction' = NoPrediction
    /\ UNCHANGED <<holidayChecker, checked, lockVars, dbVars, loadVars,
                   pipeVars>>

\* Predict(hoursAhead) at 2025-01-12T09:15Z
TrendPredictStep ==
    /\ \E h \in {0, 1, 2, 3, 4} :
           prediction' = Predict(stats, recentEvents, holidayChecker,
                                 At(1, 12, 9, 15), h)
    /\ UNCHANGED <<stats, recentEvents, holidayChecker, checked, lockVars,
                   ingested, dbVars, loadVars, pipeVars>>

SpecTrend == InitP /\ [][TrendIngestStep \/ TrendPredictStep]_vars

-----------------------------------------------------------------------------
(* The events table *)

DuplicateKey(rows, e) == \E r \in rows : r.Timestamp = e.Timestamp

\* INSERT OR REPLACE INTO events
InsertOrReplace(rows, e) ==
    [rows |-> {r \in rows : r.Timestamp # e.Timestamp} \cup {e},
     err |-> FALSE]

\* a SaveEvent that replaced the stored row
SaveEventReplacing(rows, e) == InsertOrReplace(rows, e)

\* a SaveEvent that reported success and stored nothing
SaveEventLost(rows, e) == [rows |-> rows, err |-> FALSE]

\* DB.SaveEvent: INSERT INTO events; timestamp is the primary key
SaveEvent(rows, e) ==
    IF DuplicateKey(rows, e) THEN [rows |-> rows, err |-> TRUE]
    ELSE [rows |-> rows \cup {e}, err |-> FALSE]

\* a SaveManyEvents that keeps the stored row of a repeated timestamp
RECURSIVE SaveManyEventsKeepingStored(_, _)
SaveManyEventsKeepingStored(rows, es) ==
    IF es = <<>> THEN [rows |-> rows, err |-> FALSE]
    ELSE SaveManyEventsKeepingStored(
             IF DuplicateKey(rows, Head(es)) THEN rows
             ELSE rows \cup {Head(es)},
             Tail(es))

\* DB.SaveManyEvents: INSERT OR REPLACE of every event of the list, in order
RECURSIVE SaveManyEvents(_, _)
SaveManyEvents(rows, es) ==
    IF es = <<>> THEN [rows |-> rows, err |-> FALSE]
    ELSE SaveManyEvents(InsertOrReplace(rows, Head(es)).rows, Tail(es))

\* the rows in ascending timestamp order
RECURSIVE OrderByTimestamp(_)
OrderByTimestamp(rows) ==
    IF rows = {} THEN <<>>
    ELSE LET first == CHOOSE r \in rows :
                          \A q \in rows : r.Timestamp <= q.Timestamp
         IN  <<first>> \o OrderByTimestamp(rows \ {first})

\* DB.GetAllEvents: SELECT ... ORDER BY timestamp LIMIT lim OFFSET off
GetAllEvents(rows, lim, off) ==
    LET all == OrderByTimestamp(rows)
    IN  SubSeq(all, off + 1, Min(Len(all), off + lim))

DbEventInputs == EventInputs

\* a call of SaveEvent(e)
SaveEventOf(e) ==
    \* once LoadEvents is paging, the only writer is LoadFetcher, whose
    \* timestamp is the wall clock's: not earlier than any stored row
    /\ loadPc = "idle" \/ \A r \in events : r.Timestamp <= e.Timestamp
    /\ events' = SaveEvent(events, e).rows
    /\ saveErr' = SaveEvent(events, e).err
    /\ lastSave' = <<e>>
    /\ UNCHANGED <<txOpen, predVars, loadVars, pipeVars, ingested>>

SaveEventStep == \E e \in DbEventInputs : SaveEventOf(e)

SaveManyEventsStep ==
    /\ loadPc = "idle"
    /\ \E a \in DbEventInputs, b \in DbEventInputs :
           \E es \in {<<a>>, <<a, b>>} :
               /\ events' = SaveManyEvents(events, es).rows
               /\ saveErr' = SaveManyEvents(events, es).err
               /\ lastSave' = es
    /\ UNCHANGED <<txOpen, predVars, loadVars, pipeVars, ingested>>

-----------------------------------------------------------------------------
(* Controller.LoadEvents *)

\* AddEvent for every event of a page, in order
RECURSIVE AddEvents(_, _, _)
AddEvents(p, c, page) ==
    IF page = <<>> THEN p
    ELSE AddEvents([stats |-> AddEventStats(p.stats, c, Head(page)),
                    recentEvents |-> PushRecent(p.recentEvents, Head(page))],
                   c, Tail(page))

Tagged(page, src) == [i \in 1 .. Len(page) |-> [ev |-> page[i], src |-> src]]

OffsetPlusOne(off, n) == off + 1

\* offset += n
NextOffset(off, n) == off + n

LoadEventsCall ==
    /\ loadPc' = "paging"
    /\ offset' = 0
    /\ loadSnapshot' = events

\* one iteration of the loop of LoadEvents
LoadEventsPage ==
    /\ loadPc = "paging"
    /\ IF ctxDone
       THEN \* GetAllEvents fails on the cancelled context
            /\ loadPc' = "failed"
            /\ UNCHANGED <<stats, recentEvents, ingested, offset>>
       ELSE LET page == GetAllEvents(events, limit, offset)
                p == AddEvents([stats |-> stats, recentEvents |-> recentEvents],
                               holidayChecker, page)
            IN  /\ loadPc' = IF Len(page) = 0 THEN "done" ELSE "paging"
                /\ stats' = p.stats
                /\ recentEvents' = p.recentEvents
                /\ ingested' = ingested \o Tagged(page, "backfill")
                /\ offset' = IF Len(page) = 0 THEN offset
                             ELSE NextOffset(offset, Len(page))
    /\ UNCHANGED <<holidayChecker, checked, lockVars, prediction, loadSnapshot, dbVars, pipeVars>>

-----------------------------------------------------------------------------
(* SpecBackfill: the events table is filled, then LoadEvents runs *)

LoadEventsStart ==
    /\ loadPc = "idle"
    /\ LoadEventsCall
    /\ UNCHANGED <<predVars, dbVars, pipeVars, ingested>>

InitB ==
    /\ InitPredictor
    /\ holidayChecker = Checker({<<1, 1>>, <<1, 9>>})
    /\ events = {}
    /\ InitDb
    /\ InitLoad
    /\ InitPipeIdle

NextB ==
    \/ SaveEventStep
    \/ SaveManyEventsStep
    \/ LoadEventsStart
    \/ LoadEventsPage

SpecBackfill == InitB /\ [][NextB]_vars

-----------------------------------------------------------------------------
(* The load endpoint's response and Fetcher.getLoad *)

eventChCap == 1
statusOK == 200
MaxUint8 == 255

DigitChars == <<"0", "1", "2", "3", "4", "5", "6", "7", "8", "9">>
IsDigit(c) == \E i \in 1 .. 10 : DigitChars[i] = c
DigitValue(c) == (CHOOSE i \in 1 .. 10 : DigitChars[i] = c) - 1

\* strings.TrimRight(s, "%"): every trailing '%' is removed
RECURSIVE TrimRight(_)
TrimRight(s) ==
    IF s # <<>> /\ s[Len(s)] = "%" THEN TrimRight(SubSeq(s, 1, Len(s) - 1))
    ELSE s

RECURSIVE DecimalValue(_)
DecimalValue(s) ==
    IF s = <<>> THEN 0
    ELSE 10 * DecimalValue(SubSeq(s, 1, Len(s) - 1)) + DigitValue(s[Len(s)])

\* strconv.ParseUint(s, 10, 8): digits only, no sign, at most 255
ParseUint(s) ==
    IF s = <<>> \/ \E i \in 1 .. Len(s) : ~IsDigit(s[i])
    THEN [err |-> TRUE, v |-> 0]
    ELSE IF DecimalValue(s) > MaxUint8 THEN [err |-> TRUE, v |-> MaxUint8]
    ELSE [err |-> FALSE, v |-> DecimalValue(s)]

\* a response of the endpoint: the transport may fail, the Content-Type may
\* be another than JSON's, the body may not be JSON, and the currentLoad
\* field may be missing (it decodes to "")
Response(status, load) ==
    [transport |-> TRUE, status |-> status,
     contentType |-> <<"application/json">>, json |-> TRUE,
     currentLoad |-> load]
ResponseInputs ==
    {Response(200, <<"3", "4", "%">>),
     [Response(200, <<"3", "4", "%">>) EXCEPT !.contentType = <<"text/html">>],
     Response(200, <<"1", "0", "1", "%">>),
     Response(200, <<"3", "0", "0", "%">>),
     Response(200, <<"-", "5", "%">>),
     Response(200, <<"a", "b", "c", "%">>),
     Response(200, <<>>),
     Response(500, <<"3", "4", "%">>),
     [Response(200, <<>>) EXCEPT !.json = FALSE],
     [Response(200, <<>>) EXCEPT !.transport = FALSE]}

\* Fetcher.getLoad; cancelled: the request's context is done
getLoad(resp, cancelled) ==
    IF cancelled \/ ~resp.transport THEN [err |-> TRUE, load |-> 0]
    ELSE IF resp.status # statusOK THEN [err |-> TRUE, load |-> 0]
    ELSE IF ~resp.json THEN [err |-> TRUE, load |-> 0]
    ELSE IF resp.currentLoad = <<>> THEN [err |-> TRUE, load |-> 0]
    ELSE LET p == ParseUint(TrimRight(resp.currentLoad))
         IN  IF p.err THEN [err |-> TRUE, load |-> 0]
             ELSE [err |-> FALSE, load |-> p.v]

-----------------------------------------------------------------------------
(* Controller.PredictLoad and SpecPredictLoad: the predictions for a graph *)

\* Predictor.GetTypicalLoad
GetTypicalLoad(st, c, t) ==
    LET dayType == getDayType(c, t)
        s == st[<<dayType, Hour(t)>>]
    IN  IF s.TotalWeight >= minWeight
        THEN (s.WeightedSum * Scale) \div s.TotalWeight
        ELSE fallbackPrediction(st, dayType)

\* Predictor.PredictRange; at is the clock reading of its Predict calls.
\* The uint8 counter h runs from 1 while h <= maxHours: after the iteration
\* h = maxHours it is incremented and wraps around at MaxUint8, so for
\* maxHours = MaxUint8 the test holds again with h = 0, and the index h - 1
\* (MaxUint8 in uint8) lies outside the slice of maxHours predictions.
PredictRange(st, w, c, at, maxHours) ==
    LET h == (maxHours + 1) % (MaxUint8 + 1)
        index == (h - 1) % (MaxUint8 + 1)
    IN  IF h <= maxHours /\ index >= maxHours
        THEN [panic |-> TRUE, predictions |-> <<>>]
        ELSE [panic |-> FALSE,
              predictions |-> [i \in 1 .. maxHours |->
                                  Predict(st, w, c, at, i)]]

\* Controller.PredictLoad: now is its own reading of the clock and later the
\* reading of the Predict calls, which come after it
PredictLoad(st, w, c, now, later, hours) ==
    LET range == PredictRange(st, w, c, later, hours)
        first == [Timestamp |-> now,
                  Predict |-> Num(GetTypicalLoad(st, c, now))]
        rest == [i \in 1 .. Len(range.predictions) |->
                     [Timestamp |-> range.predictions[i].TargetTime,
                      Predict |-> range.predictions[i].Load]]
    IN  [hours |-> hours, now |-> now, later |-> later, panic |-> range.panic,
         events |-> IF range.panic THEN <<>> ELSE <<first>> \o rest]

\* the loads that Fetcher.getLoad accepts, which Fetch persists and emits
PersistableLoads ==
    {getLoad(r, FALSE).load :
         r \in {x \in ResponseInputs : ~getLoad(x, FALSE).err}}

\* events that Fetch can have persisted, in two cells of one day type
PredictLoadIngestStep ==
    /\ Len(ingested) < MaxIngest
    /\ \E e \in [Timestamp : {At(1, 5, 10, 0), At(1, 5, 11, 0),
                              At(1, 12, 10, 0)},
                  Load : PersistableLoads] : AddEvent(e, "direct")
    /\ prediction' = NoPrediction
    /\ UNCHANGED <<holidayChecker, checked, lockVars, dbVars, loadVars, pipeVars>>

\* a call of PredictLoad; the clock may advance by lag before the Predict
\* calls read it
PredictLoadStep ==
    /\ \E now \in {At(1, 12, 10, 15), At(1, 9, 9, 30)}, lag \in {0, 1},
          hours \in {0, 1, 2, MaxUint8} :
           prediction' = PredictLoad(stats, recentEvents, holidayChecker,
                                     now, now + lag, hours)
    /\ UNCHANGED <<stats, recentEvents, holidayChecker, checked, lockVars, ingested, dbVars,
                   loadVars, pipeVars>>

SpecPredictLoad ==
    InitP /\ [][PredictLoadIngestStep \/ PredictLoadStep]_vars

-----------------------------------------------------------------------------
(* SpecLock: the Predictor's methods called from concurrent goroutines, one *)
(* step per lock operation and per group of statements between them         *)

\* AddEvent's decay of the cell: the two products, when the event is later
\* than the cell's LastUpdate
DecayCell(s, e) ==
    LET secs == e.Timestamp - s.LastUpdate
        decays == s.LastUpdate # ZeroTime /\ secs > 0
        decayFactor == ExpNeg(MulDiv(secs, decayLambda, SecondsPerDay))
    IN  IF decays
        THEN [s EXCEPT !.WeightedSum = (s.WeightedSum * decayFactor) \div Scale,
                       !.TotalWeight = (s.TotalWeight * decayFactor) \div Scale]
        ELSE s

\* AddEvent's accumulation into the cell
AccumulateCell(s, e) ==
    [LastUpdate |-> e.Timestamp, WeightedSum |-> s.WeightedSum + FloatLoad(e),
     TotalWeight |-> s.TotalWeight + Scale, Count |-> s.Count + 1]

\* the cell the methods select for the instant t
CellKey(t) == <<getDayType(holidayChecker, t), Hour(t)>>

\* AddEvent: p.mu.Lock(), which waits until no goroutine holds the lock
AddEventLock ==
    /\ Len(ingested) < MaxIngest
    /\ calls["writer"].pc = "idle"
    /\ ~mu.writer /\ mu.readers = 0
    /\ \E t \in {At(1, 5, 10, 0), At(1, 12, 10, 0)} :
           calls' = [calls EXCEPT !["writer"] =
                         [pc |-> "locked", ev |-> [Timestamp |-> t, Load |-> 40]]]
    /\ mu' = [mu EXCEPT !.writer = TRUE]
    /\ UNCHANGED <<stats, recentEvents, holidayChecker, checked, prediction,
                   observed, ingested, dbVars, loadVars, pipeVars>>

\* AddEvent: the decay step
AddEventDecay ==
    /\ calls["writer"].pc = "locked"
    /\ LET e == calls["writer"].ev
       IN  stats' = [stats EXCEPT ![CellKey(e.Timestamp)] = DecayCell(@, e)]
    /\ calls' = [calls EXCEPT !["writer"].pc = "decayed"]
    /\ UNCHANGED <<recentEvents, holidayChecker, checked, prediction, mu,
                   observed, ingested, dbVars, loadVars, pipeVars>>

\* AddEvent: the accumulate step and the window
AddEventAccumulate ==
    /\ calls["writer"].pc = "decayed"
    /\ LET e == calls["writer"].ev
       IN  /\ stats' = [stats EXCEPT ![CellKey(e.Timestamp)] = AccumulateCell(@, e)]
           /\ recentEvents' = PushRecent(recentEvents, e)
           /\ ingested' = Append(ingested, [ev |-> e, src |-> "direct"])
    /\ calls' = [calls EXCEPT !["writer"].pc = "added"]
    /\ UNCHANGED <<holidayChecker, checked, prediction, mu, observed, dbVars,
                   loadVars, pipeVars>>

\* AddEvent: the deferred p.mu.Unlock()
AddEventUnlock ==
    /\ calls["writer"].pc = "added"
    /\ mu' = [mu EXCEPT !.writer = FALSE]
    /\ calls' = [calls EXCEPT !["writer"] = Idle]
    /\ UNCHANGED <<stats, recentEvents, holidayChecker, checked, prediction,
                   observed, ingested, dbVars, loadVars, pipeVars>>

\* what a read of the cell c gets.  The goroutine that holds the lock, or
\* reads while no AddEvent runs, gets the cell as it is.  A read that races
\* with the step AddEvent is about to take gets the cell as it is or as that
\* step leaves it.
ReadOfCell(c) ==
    LET w == calls["writer"]
    IN  {stats[c]} \cup
        (IF w.pc = "locked" /\ c = CellKey(w.ev.Timestamp)
         THEN {DecayCell(stats[c], w.ev)} ELSE {}) \cup
        (IF w.pc = "decayed" /\ c = CellKey(w.ev.Timestamp)
         THEN {AccumulateCell(stats[c], w.ev)} ELSE {})

\* AddEvent is between its decay step and its accumulate step on the cell c
MidIngest(c) == calls["writer"].pc = "decayed" /\ c =
        CellKey(calls["writer"].ev.Timestamp)

\* Predict and GetTypicalLoad: p.mu.RLock(), which waits while a writer
\* holds the lock
ReadRLock ==
    /\ calls["reader"].pc = "idle"
    /\ ~mu.writer
    /\ mu' = [mu EXCEPT !.readers = @ + 1]
    /\ \E op \in {"Predict", "GetTypicalLoad"} :
           calls' = [calls EXCEPT !["reader"] = [pc |-> "rlocked", op |-> op]]
    /\ UNCHANGED <<stats, recentEvents, holidayChecker, checked, prediction,
                   observed, ingested, dbVars, loadVars, pipeVars>>

\* Predict(1) at 2025-01-12T09:15Z or GetTypicalLoad(2025-01-05T10:00Z): the
\* reads of the state and the deferred p.mu.RUnlock()
ReadRUnlock ==
    /\ calls["reader"].pc = "rlocked"
    /\ LET op == calls["reader"].op
           t == At(1, 5, 10, 0)
           now == At(1, 12, 9, 15)
           c == IF op = "Predict" THEN CellKey(now + SecondsPerHour)
                ELSE CellKey(t)
       IN  \E v \in ReadOfCell(c) :
               observed' =
                   [op |-> op, cell |-> c, value |-> v,
                    locked |-> mu.readers > 0, midIngest |-> MidIngest(c),
                    result |->
                        IF op = "Predict"
                        THEN Predict([stats EXCEPT ![c] = v], recentEvents,
                                     holidayChecker, now, 1).Load
                        ELSE Num(GetTypicalLoad([stats EXCEPT ![c] = v],
                                                holidayChecker, t))]
    /\ mu' = [mu EXCEPT !.readers = @ - 1]
    /\ calls' = [calls EXCEPT !["reader"] = Idle]
    /\ UNCHANGED <<stats, recentEvents, holidayChecker, checked, prediction,
                   ingested, dbVars, loadVars, pipeVars>>

\* String: the read of the next cell of its loop over the 8 x 24 cells,
\* with no lock operation before or after
StringRead ==
    /\ LET k == IF calls["printer"].pc = "idle" THEN 0
                ELSE calls["printer"].next
           c == <<k \div hoursInDay, k % hoursInDay>>
       IN  /\ \E v \in ReadOfCell(c) :
                   observed' = [op |-> "String", cell |-> c, value |-> v,
                                locked |-> FALSE, midIngest |-> MidIngest(c),
                                result |-> Num(v.Count)]
           /\ calls' = [calls EXCEPT !["printer"] =
                            IF k + 1 = Cardinality(DayTypes) * hoursInDay
                            THEN Idle
                            ELSE [pc |-> "loop", next |-> k + 1]]
    /\ UNCHANGED <<stats, recentEvents, holidayChecker, checked, prediction,
                   mu, ingested, dbVars, loadVars, pipeVars>>

SpecLock ==
    InitP /\ [][AddEventLock \/ AddEventDecay \/ AddEventAccumulate
                \/ AddEventUnlock \/ ReadRLock \/ ReadRUnlock
                \/ StringRead]_vars

-----------------------------------------------------------------------------
(* The holidays table and HolidayParams.Fetch *)

\* the year of a time, counted from the epoch's year
Year(t) == (t \div SecondsPerDay) \div DaysPerYear

HolidayRow(y, m, d, title) == [Year |-> y, Month |-> m, Day |-> d, Title |-> title]
SameDay(a, b) == a.Year = b.Year /\ a.Month = b.Month /\ a.Day = b.Day

\* what the calendar service lists for a year
UpstreamCalendar(y) ==
    <<HolidayRow(y, 1, 1, "New Year"), HolidayRow(y, 1, 6, "Christmas Eve")>>
HolidayResponses(y) ==
    {[err |-> TRUE, holidays |-> <<>>],
     [err |-> FALSE, holidays |-> UpstreamCalendar(y)]}

\* INSERT OR REPLACE INTO holidays, row by row
RECURSIVE InsertHolidays(_, _)
InsertHolidays(rows, hs) ==
    IF hs = <<>> THEN rows
    ELSE InsertHolidays({r \in rows : ~SameDay(r, Head(hs))} \cup {Head(hs)},
                        Tail(hs))

\* a replace that deletes the years of the listed days only, not the years
\* between them
SaveManyHolidaysTxListedYears(rows, hs) ==
    IF hs = <<>> THEN rows
    ELSE LET years == {hs[i].Year : i \in 1 .. Len(hs)}
         IN  InsertHolidays({r \in rows : r.Year \notin years}, hs)

\* a replace that removes a listed day that is already stored and stores the
\* others
SaveManyHolidaysTxToggle(rows, hs) ==
    LET listed == {hs[i] : i \in 1 .. Len(hs)}
    IN  (rows \ listed) \cup (listed \ rows)

\* SaveManyHolidaysTx: the years the list spans are deleted, then the list
\* is inserted
SaveManyHolidaysTx(rows, hs) ==
    IF hs = <<>> THEN rows
    ELSE LET years == {hs[i].Year : i \in 1 .. Len(hs)}
             minYear == CHOOSE y \in years : \A z \in years : y <= z
             maxYear == CHOOSE y \in years : \A z \in years : y >= z
         IN  InsertHolidays({r \in rows : r.Year < minYear \/ r.Year > maxYear},
                            hs)

\* a Fetch that saves this year's list before it asks for the next year's
HolidayerFetchSavingEach(rows, thisYear, nextYear, cancelled) ==
    IF cancelled \/ thisYear.err THEN [rows |-> rows, err |-> TRUE]
    ELSE IF nextYear.err
    THEN [rows |-> SaveManyHolidaysTx(rows, thisYear.holidays), err |-> TRUE]
    ELSE [rows |-> SaveManyHolidaysTx(rows, thisYear.holidays \o nextYear.holidays),
          err |-> FALSE]

\* HolidayParams.Fetch: this year's list and the next year's, saved in one
\* transaction
HolidayerFetch(rows, thisYear, nextYear, cancelled) ==
    IF cancelled \/ thisYear.err \/ nextYear.err
    THEN [rows |-> rows, err |-> TRUE]
    ELSE [rows |-> SaveManyHolidaysTx(rows, thisYear.holidays \o nextYear.holidays),
          err |-> FALSE]

\* DB.GetHolidays(year)
GetHolidays(rows, year) == {r \in rows : r.Year = year}

\* NewRussianHolidayChecker: the map from the month and day of this year's
\* holidays to their titles
NewRussianHolidayChecker(rows, now) ==
    LET holidaysOfYear == GetHolidays(rows, Year(now))
        keys == {<<r.Month, r.Day>> : r \in holidaysOfYear}
    IN  [nil |-> FALSE, fixedHolidays |-> keys,
         titles |-> [md \in keys |->
                        (CHOOSE r \in holidaysOfYear :
                             <<r.Month, r.Day>> = md).Title]]

-----------------------------------------------------------------------------
(* SpecChecker: a RussianHolidayChecker built from the table and asked *)

\* what the holidays table may hold: days of two years, one of them a short
\* day that names no holiday and so has the empty title
CheckerStoreInputs ==
    SUBSET {HolidayRow(0, 1, 1, "New Year"), HolidayRow(0, 2, 22, ""),
            HolidayRow(1, 1, 1, "New Year"), HolidayRow(1, 3, 8, "Women's Day")}

\* the instants the checker is asked about, in three years
CheckerQueryInputs ==
    {At(m, d, 10, 0) + y * DaysPerYear * SecondsPerDay :
         m \in {1, 2, 3}, d \in {1, 8, 22}, y \in {0, 1, 2}}

\* NewRussianHolidayChecker(ctx, db, location) in the year y of the clock
NewCheckerStep ==
    /\ \E y \in {0, 1} :
           holidayChecker' = NewRussianHolidayChecker(
                                 holidays, At(1, 2, 0, 0) +
                                           y * DaysPerYear * SecondsPerDay)
    /\ checked' = NoAnswer
    /\ UNCHANGED <<stats, recentEvents, prediction, lockVars, dbVars,
                   loadVars, pipeVars, ingested>>

\* IsHoliday(t) and HolidayTitle(t)
CheckStep ==
    /\ ~holidayChecker.nil
    /\ \E t \in CheckerQueryInputs :
           checked' = [t |-> t, IsHoliday |-> IsHoliday(holidayChecker, t),
                       HolidayTitle |-> HolidayTitle(holidayChecker, t)]
    /\ UNCHANGED <<stats, recentEvents, holidayChecker, prediction, lockVars,
                   dbVars, loadVars, pipeVars, ingested>>

InitChecker ==
    /\ InitPredictor
    /\ holidayChecker = NilChecker
    /\ events = {}
    /\ InitDb
    /\ InitLoad
    /\ clock = [sec |-> 0, sub |-> 0]
    /\ cfg = AllActive
    /\ holidays \in CheckerStoreInputs
    /\ fetcherPc = "off"
    /\ fetchCaller = "run"
    /\ fetchLoad = NoFetch
    /\ fetchEvent = NoEvent
    /\ fetchTick = FALSE
    /\ eventCh = <<>>
    /\ eventChClosed = FALSE
    /\ fetchDoneCh = FALSE
    /\ controllerPc = "off"
    /\ predictorCh = FALSE
    /\ holidayerPc = "off"
    /\ holidayerDoneCh = FALSE
    /\ mainPc = "off"
    /\ ctxDone = FALSE
    /\ sent = <<>>

SpecChecker == InitChecker /\ [][NewCheckerStep \/ CheckStep]_vars


-----------------------------------------------------------------------------
(* SpecZone: the checker of a configured time zone, asked about instants *)
(* that carry a zone of their own                                         *)

\* a time.Time is an instant and the zone it carries; Date() and Hour() read
\* the wall clock of that zone, zone seconds east of UTC
Wall(t, zone) == t + zone

\* NewRussianHolidayChecker(ctx, db, cfg.Base.TimeLocation): the year is the
\* one of time.Now().In(location)
ZoneNewCheckerStep ==
    /\ \E now \in {At(1, 2, 9, 0), At(1, 6, 23, 0)} :
           holidayChecker' =
               NewRussianHolidayChecker(holidays, Wall(now, cfg.timeLocation))
    /\ checked' = NoAnswer
    /\ prediction' = NoPrediction
    /\ UNCHANGED <<stats, recentEvents, lockVars, dbVars, loadVars, pipeVars,
                   ingested>>

\* IsHoliday(t) and HolidayTitle(t) for the instant t carried in UTC, in
\* Europe/Moscow or in America/New_York
ZoneCheckStep ==
    /\ ~holidayChecker.nil
    /\ \E t \in {At(1, 1, 22, 0), At(1, 6, 22, 0), At(1, 7, 10, 0),
                 At(1, 8, 2, 0)},
          zone \in {0, 3 * SecondsPerHour, -5 * SecondsPerHour} :
           checked' = [t |-> t, zone |-> zone,
                       IsHoliday |-> IsHoliday(holidayChecker, Wall(t, zone)),
                       HolidayTitle |->
                           HolidayTitle(holidayChecker, Wall(t, zone))]
    /\ UNCHANGED <<stats, recentEvents, holidayChecker, prediction, lockVars,
                   dbVars, loadVars, pipeVars, ingested>>

\* Predict(hoursAhead): its clock reading is time.Now().UTC()
ZonePredictStep ==
    /\ ~holidayChecker.nil
    /\ \E now \in {At(1, 1, 21, 30), At(1, 6, 21, 30), At(1, 7, 9, 30)},
          h \in {1, 2} :
           prediction' = Predict(stats, recentEvents, holidayChecker,
                                 Wall(now, 0), h)
    /\ UNCHANGED <<stats, recentEvents, holidayChecker, checked, lockVars,
                   ingested, dbVars, loadVars, pipeVars>>

InitZone ==
    /\ InitPredictor
    /\ holidayChecker = NilChecker
    /\ events = {}
    /\ InitDb
    /\ InitLoad
    /\ clock = [sec |-> 0, sub |-> 0]
    /\ cfg \in [fetcher : {TRUE}, holidayer : {TRUE}, predictor : {TRUE},
                timeLocation : {0, 3 * SecondsPerHour}]
    /\ holidays \in {{HolidayRow(0, 1, 1, "New Year"),
                      HolidayRow(0, 1, 7, "Christmas")},
                     {HolidayRow(0, 1, 1, "New Year")}}
    /\ fetcherPc = "off"
    /\ fetchCaller = "run"
    /\ fetchLoad = NoFetch
    /\ fetchEvent = NoEvent
    /\ fetchTick = FALSE
    /\ eventCh = <<>>
    /\ eventChClosed = FALSE
    /\ fetchDoneCh = FALSE
    /\ controllerPc = "off"
    /\ predictorCh = FALSE
    /\ holidayerPc = "off"
    /\ holidayerDoneCh = FALSE
    /\ mainPc = "off"
    /\ ctxDone = FALSE
    /\ sent = <<>>

SpecZone ==
    InitZone /\ [][ZoneNewCheckerStep \/ ZoneCheckStep \/ ZonePredictStep]_vars

-----------------------------------------------------------------------------
(* HolidayParams.getHolidays: a response of the calendar service *)

xmlContentType == <<"text/xml">>
appXMLContentType == <<"application/xml">>
holidayTypeHoliday == 1
holidayTypeShortDay == 2

\* strings.HasPrefix, on a header value given as its media type followed by
\* its parameters
HasPrefix(s, prefix) ==
    Len(prefix) <= Len(s) /\ SubSeq(s, 1, Len(prefix)) = prefix

\* time.Parse("01.02", s): two digits of a month, a dot, two digits of a day
\* of that month
ParseMonthDay(s) ==
    IF Len(s) = 5 /\ s[3] = "." /\ \A i \in {1, 2, 4, 5} : IsDigit(s[i])
    THEN LET month == 10 * DigitValue(s[1]) + DigitValue(s[2])
             day == 10 * DigitValue(s[4]) + DigitValue(s[5])
         IN  IF month \in 1 .. 12 /\ day >= 1 /\ day <= MonthLengths[month]
             THEN [err |-> FALSE, Month |-> month, Day |-> day]
             ELSE [err |-> TRUE, Month |-> 0, Day |-> 0]
    ELSE [err |-> TRUE, Month |-> 0, Day |-> 0]

\* the loop of getHolidays over the days of the calendar: the days of type
\* holiday or short day are collected, the first one that does not parse ends
\* the loop with an error
RECURSIVE CollectHolidays(_, _, _)
CollectHolidays(year, days, acc) ==
    IF days = <<>> THEN [err |-> FALSE, holidays |-> acc]
    ELSE LET day == Head(days)
             dateParsed == ParseMonthDay(day.Date)
         IN  IF day.Type \notin {holidayTypeHoliday, holidayTypeShortDay}
             THEN CollectHolidays(year, Tail(days), acc)
             ELSE IF dateParsed.err THEN [err |-> TRUE, holidays |-> <<>>]
             ELSE CollectHolidays(year, Tail(days),
                      Append(acc, HolidayRow(year, dateParsed.Month,
                                             dateParsed.Day, day.Title)))

\* HolidayParams.getHolidays
getHolidays(resp) ==
    IF ~resp.transport THEN [err |-> TRUE, holidays |-> <<>>]
    ELSE IF resp.status # statusOK THEN [err |-> TRUE, holidays |-> <<>>]
    ELSE IF /\ ~HasPrefix(resp.contentType, xmlContentType)
            /\ ~HasPrefix(resp.contentType, appXMLContentType)
    THEN [err |-> TRUE, holidays |-> <<>>]
    ELSE IF ~resp.decodable THEN [err |-> TRUE, holidays |-> <<>>]
    ELSE IF resp.days = <<>> THEN [err |-> FALSE, holidays |-> <<>>]
    ELSE CollectHolidays(resp.year, resp.days, <<>>)

XMLDay(date, type, title) == [Date |-> date, Type |-> type, Title |-> title]

\* the calendar of year y as the service sends it
CalendarResponse(y) ==
    [transport |-> TRUE, status |-> statusOK, contentType |-> xmlContentType,
     decodable |-> TRUE, year |-> y,
     days |-> <<XMLDay(<<"0", "1", ".", "0", "1">>, 1, "New Year"),
                XMLDay(<<"0", "1", ".", "0", "6">>, 2, "Christmas Eve"),
                XMLDay(<<"1", "2", ".", "2", "8">>, 3, "")>>]

\* the answers to a request for year y: the calendar, the calendar under
\* another accepted content type, an empty calendar, and the failures
HolidayResponseInputs(y) ==
    LET ok == CalendarResponse(y)
    IN  {ok,
         [ok EXCEPT !.contentType = <<"application/xml", "; charset=utf-8">>],
         [ok EXCEPT !.days = <<>>],
         [ok EXCEPT !.status = 500],
         [ok EXCEPT !.contentType = <<"text/html">>],
         [ok EXCEPT !.decodable = FALSE],
         [ok EXCEPT !.days = Append(ok.days,
              XMLDay(<<"1", "3", ".", "4", "5">>, 1, "New Year"))]}

-----------------------------------------------------------------------------
(* InTransaction and SpecStore: the holidays table under its writers *)

\* an InTransaction that committed what the closure had written before it
\* returned its error
InTransactionNoRollback(rows, written, outcome, commitErr) ==
    [rows |-> IF outcome = "panic" \/ (outcome = "ok" /\ commitErr)
              THEN rows ELSE written,
     err |-> outcome = "error" \/ (outcome = "ok" /\ commitErr),
     panic |-> outcome = "panic", txOpen |-> outcome = "panic"]

\* InTransaction(ctx, db, f): written is the table as the closure f left it
\* inside the transaction, outcome how f ended ("ok", "error" or "panic"),
\* commitErr whether tx.Commit fails. A panic of f leaves InTransaction at
\* once: nothing is committed, and the transaction is not rolled back either.
InTransaction(rows, written, outcome, commitErr) ==
    IF outcome = "panic"
    THEN [rows |-> rows, err |-> FALSE, panic |-> TRUE, txOpen |-> TRUE]
    ELSE IF outcome = "error"
    THEN [rows |-> rows, err |-> TRUE, panic |-> FALSE, txOpen |-> FALSE]
    ELSE IF commitErr
    THEN [rows |-> rows, err |-> TRUE, panic |-> FALSE, txOpen |-> FALSE]
    ELSE [rows |-> written, err |-> FALSE, panic |-> FALSE, txOpen |-> FALSE]

\* the lists handed to SaveManyHolidaysTx: one day, one day listed twice, and
\* two days two years apart
HolidayListInputs ==
    {<<HolidayRow(0, 3, 1, "New")>>,
     <<HolidayRow(0, 1, 1, "Old Title"), HolidayRow(0, 1, 1, "New Year")>>,
     <<HolidayRow(2, 1, 1, "New Year"), HolidayRow(0, 3, 1, "New")>>,
     <<>>}

NoCall == [op |-> "none"]

\* InTransaction around SaveManyHolidaysTx(list); BeginTxx waits for the
\* connection
InTransactionStep ==
    /\ ~txOpen
    /\ \E list \in HolidayListInputs, outcome \in {"ok", "error", "panic"},
          commitErr \in BOOLEAN :
           LET r == InTransaction(holidays,
                                  SaveManyHolidaysTx(holidays, list),
                                  outcome, commitErr)
           IN  /\ holidays' = r.rows
               /\ saveErr' = r.err
               /\ txOpen' = r.txOpen
               /\ lastSave' = [op |-> "InTransaction", list |-> list,
                               outcome |-> outcome, commitErr |-> commitErr,
                               panic |-> r.panic, before |-> holidays]
    /\ UNCHANGED <<events, predVars, loadVars, runVars, ingested>>

\* the context given to BeginTxx is done: database/sql rolls the open
\* transaction back and releases its connection
TxContextDone ==
    /\ txOpen
    /\ txOpen' = FALSE
    /\ UNCHANGED <<holidays, events, saveErr, lastSave, predVars, loadVars,
                   runVars, ingested>>

\* HolidayParams.Fetch in the year y of the clock, against the answers of the
\* service for y and y + 1
StoreFetchStep ==
    /\ ~txOpen
    /\ \E y \in {1, 2} :
         \E this \in HolidayResponseInputs(y),
            next \in HolidayResponseInputs(y + 1) :
           LET r == HolidayerFetch(holidays, getHolidays(this),
                                   getHolidays(next), FALSE)
           IN  /\ holidays' = r.rows
               /\ saveErr' = r.err
               /\ lastSave' = [op |-> "Fetch", this |-> this, next |-> next,
                               before |-> holidays,
                               repeated |-> /\ lastSave.op = "Fetch"
                                            /\ lastSave.this = this
                                            /\ lastSave.next = next]
    /\ UNCHANGED <<txOpen, events, predVars, loadVars, runVars, ingested>>

InitStore ==
    /\ InitPredictor
    /\ holidayChecker = NilChecker
    /\ events = {}
    /\ saveErr = FALSE
    /\ lastSave = NoCall
    /\ txOpen = FALSE
    /\ InitLoad
    /\ InitPipeIdle

SpecStore ==
    InitStore /\ [][InTransactionStep \/ TxContextDone \/ StoreFetchStep]_vars

-----------------------------------------------------------------------------
(* Spec: main starts the components, they run, main waits for them *)

MaxSeconds == 1

StartTime == At(1, 6, 10, 0)

\* time.Now().UTC().Truncate(time.Second)
Truncate(c) == c.sec

CfgInputs ==
    {AllActive,
     [AllActive EXCEPT !.predictor = FALSE],
     [AllActive EXCEPT !.fetcher = FALSE, !.holidayer = FALSE]}

\* the process is alive: main has neither returned early nor finished
Running == mainPc \notin {"off", "exited", "stopped"}

\* time passes
ClockTick ==
    /\ Running
    /\ clock.sec < StartTime + MaxSeconds
    /\ clock' = IF clock.sub = 0 THEN [clock EXCEPT !.sub = 1]
                ELSE [sec |-> clock.sec + 1, sub |-> 0]
    /\ UNCHANGED <<predVars, dbVars, loadVars, cfg, fetcherVars, chanVars,
                   fetchDoneCh, controllerVars, holidayerVars, mainPc, ctxDone,
                   ingested>>

\* SIGINT or SIGTERM arrives
Cancel ==
    /\ Running
    /\ ~ctxDone
    /\ ctxDone' = TRUE
    /\ UNCHANGED <<predVars, dbVars, loadVars, clock, cfg, fetcherVars,
                   chanVars, fetchDoneCh, controllerVars, holidayerVars,
                   mainPc, ingested>>

\* ---- LoadFetcher

\* runFetcher, up to the call of Fetch in Fetcher.Run
MainRunFetcher ==
    /\ mainPc = "runFetcher"
    /\ IF ~cfg.fetcher
       THEN /\ fetchDoneCh' = TRUE
            /\ fetcherPc' = "inactive"
            /\ mainPc' = "runHolidayer"
       ELSE /\ fetcherPc' = "getLoad"
            /\ mainPc' = "fetcherRun"
            /\ UNCHANGED fetchDoneCh
    /\ UNCHANGED <<predVars, dbVars, loadVars, clock, cfg, fetchCaller,
                   fetchLoad, fetchEvent, fetchTick, chanVars, controllerVars,
                   holidayerVars, ctxDone, ingested>>

\* a Run that started the worker whatever the initial fetch returned
FetchReturnStarting(err) ==
    IF fetchCaller = "run"
    THEN /\ fetcherPc' = "select"
         /\ mainPc' = "runHolidayer"
         /\ UNCHANGED eventChClosed
    ELSE /\ fetcherPc' = "select"
         /\ UNCHANGED <<eventChClosed, mainPc>>

\* a worker that left its loop when a fetch failed
FetchReturnFatal(err) ==
    IF fetchCaller = "run"
    THEN IF err
         THEN /\ eventChClosed' = TRUE
              /\ fetcherPc' = "failed"
              /\ mainPc' = "exited"
         ELSE /\ fetcherPc' = "select"
              /\ mainPc' = "runHolidayer"
              /\ UNCHANGED eventChClosed
    ELSE /\ fetcherPc' = IF err THEN "closeEventCh" ELSE "select"
         /\ UNCHANGED <<eventChClosed, mainPc>>

\* Fetch returns to its caller: Fetcher.Run or the worker's loop
FetchReturn(err) ==
    IF fetchCaller = "run"
    THEN IF err
         THEN /\ eventChClosed' = TRUE
              /\ fetcherPc' = "failed"
              /\ mainPc' = "exited"
         ELSE /\ fetcherPc' = "select"
              /\ mainPc' = "runHolidayer"
              /\ UNCHANGED eventChClosed
    ELSE /\ fetcherPc' = "select"
         /\ UNCHANGED <<eventChClosed, mainPc>>

\* Fetch: the call of getLoad
FetchGetLoad ==
    /\ Running
    /\ fetcherPc = "getLoad"
    /\ \E resp \in ResponseInputs :
           LET r == getLoad(resp, ctxDone)
           IN  IF r.err
               THEN /\ FetchReturn(TRUE)
                    /\ fetchLoad' = NoFetch
               ELSE /\ fetcherPc' = "save"
                    /\ fetchLoad' = [resp |-> resp.currentLoad,
                                     contentType |-> resp.contentType,
                                     load |-> r.load]
                    /\ UNCHANGED <<eventChClosed, mainPc>>
    /\ UNCHANGED <<predVars, dbVars, loadVars, clock, cfg, fetchCaller,
                   fetchEvent, fetchTick, eventCh, sent, fetchDoneCh,
                   controllerVars, holidayerVars, ctxDone, ingested>>

\* Fetch: the event is built from the clock and saved
FetchSave ==
    /\ Running
    /\ fetcherPc = "save"
    /\ LET event == [Timestamp |-> Truncate(clock), Load |-> fetchLoad.load]
           r == SaveEvent(events, event)
           err == ctxDone \/ r.err
       IN  /\ events' = IF ctxDone THEN events ELSE r.rows
           /\ saveErr' = err
           /\ lastSave' = <<event>>
           /\ IF err
              THEN /\ FetchReturn(TRUE)
                   /\ fetchLoad' = NoFetch
                   /\ fetchEvent' = NoEvent
              ELSE /\ fetcherPc' = "send"
                   /\ fetchEvent' = event
                   /\ UNCHANGED <<fetchLoad, eventChClosed, mainPc>>
    /\ UNCHANGED <<txOpen, predVars, loadVars, clock, cfg, fetchCaller, fetchTick,
                   eventCh, sent, fetchDoneCh, controllerVars, holidayerVars,
                   ctxDone, ingested>>

\* eventCh <- event
Send(ch, e) == Append(ch, e)

\* Fetch: the send on the event channel, which blocks while the buffer is
\* full, and the return
FetchSend ==
    /\ Running
    /\ fetcherPc = "send"
    /\ Len(eventCh) < eventChCap
    /\ eventCh' = Send(eventCh, fetchEvent)
    /\ sent' = Append(sent, fetchEvent)
    /\ FetchReturn(FALSE)
    /\ fetchLoad' = NoFetch
    /\ fetchEvent' = NoEvent
    /\ UNCHANGED <<predVars, dbVars, loadVars, clock, cfg, fetchCaller,
                   fetchTick, fetchDoneCh, controllerVars, holidayerVars,
                   ctxDone, ingested>>

\* the worker's goroutine exists and has not left its loop
FetcherWorkerLoop ==
    \/ fetcherPc = "select"
    \/ fetchCaller = "worker" /\ fetcherPc \in {"getLoad", "save", "send"}

\* the ticker fires; a tick that finds one waiting is dropped
FetcherTick ==
    /\ Running
    /\ FetcherWorkerLoop
    /\ ~fetchTick
    /\ fetchTick' = TRUE
    /\ UNCHANGED <<predVars, dbVars, loadVars, clock, cfg, fetcherPc,
                   fetchCaller, fetchLoad, fetchEvent, chanVars, fetchDoneCh,
                   controllerVars, holidayerVars, mainPc, ctxDone, ingested>>

\* the worker's select: cancellation or a tick
FetcherSelect ==
    /\ Running
    /\ fetcherPc = "select"
    /\ \/ /\ ctxDone
          /\ fetcherPc' = "closeEventCh"
          /\ UNCHANGED <<fetchCaller, fetchTick>>
       \/ /\ fetchTick
          /\ fetchTick' = FALSE
          /\ fetchCaller' = "worker"
          /\ fetcherPc' = "getLoad"
    /\ UNCHANGED <<predVars, dbVars, loadVars, clock, cfg, fetchLoad,
                   fetchEvent, chanVars, fetchDoneCh, controllerVars,
                   holidayerVars, mainPc, ctxDone, ingested>>

\* a worker that closed doneCh where it should close eventCh
FetcherCloseDoneChFirst ==
    /\ Running
    /\ fetcherPc = "closeEventCh"
    /\ fetchDoneCh' = TRUE
    /\ fetcherPc' = "closeDoneCh"
    /\ UNCHANGED <<predVars, dbVars, loadVars, clock, cfg, fetchCaller,
                   fetchLoad, fetchEvent, fetchTick, chanVars, controllerVars,
                   holidayerVars, mainPc, ctxDone, ingested>>

\* the worker's deferred ticker.Stop() and close(eventCh)
FetcherCloseEventCh ==
    /\ Running
    /\ fetcherPc = "closeEventCh"
    /\ eventChClosed' = TRUE
    /\ fetcherPc' = "closeDoneCh"
    /\ UNCHANGED <<predVars, dbVars, loadVars, clock, cfg, fetchCaller,
                   fetchLoad, fetchEvent, fetchTick, eventCh, sent,
                   fetchDoneCh, controllerVars, holidayerVars, mainPc, ctxDone,
                   ingested>>

\* the worker's deferred close(doneCh)
FetcherCloseDoneCh ==
    /\ Running
    /\ fetcherPc = "closeDoneCh"
    /\ fetchDoneCh' = TRUE
    /\ fetcherPc' = "exited"
    /\ UNCHANGED <<predVars, dbVars, loadVars, clock, cfg, fetchCaller,
                   fetchLoad, fetchEvent, fetchTick, chanVars, controllerVars,
                   holidayerVars, mainPc, ctxDone, ingested>>

\* ---- HolidayFetcher

\* runHolidayer, up to the call of Fetch in HolidayParams.Run
MainRunHolidayer ==
    /\ mainPc = "runHolidayer"
    /\ IF ~cfg.holidayer
       THEN /\ holidayerDoneCh' = TRUE
            /\ holidayerPc' = "inactive"
            /\ mainPc' = "runPredictor"
       ELSE /\ holidayerPc' = "initFetch"
            /\ mainPc' = "holidayerRun"
            /\ UNCHANGED holidayerDoneCh
    /\ UNCHANGED <<predVars, dbVars, loadVars, clock, cfg, fetcherVars,
                   chanVars, fetchDoneCh, controllerVars, holidays, ctxDone,
                   ingested>>

\* HolidayParams.Fetch, called by Run or by the worker on a tick
HolidayFetch ==
    /\ Running
    /\ holidayerPc \in {"initFetch", "tickFetch"}
    /\ \E a \in HolidayResponses(Year(clock.sec)),
          b \in HolidayResponses(Year(clock.sec) + 1) :
           LET r == HolidayerFetch(holidays, a, b, ctxDone)
           IN  /\ holidays' = r.rows
               /\ IF holidayerPc = "initFetch"
                  THEN IF r.err
                       THEN /\ holidayerPc' = "failed"
                            /\ mainPc' = "exited"
                       ELSE /\ holidayerPc' = "select"
                            /\ mainPc' = "runPredictor"
                  ELSE /\ holidayerPc' = "select"
                       /\ UNCHANGED mainPc
    /\ UNCHANGED <<predVars, dbVars, loadVars, clock, cfg, fetcherVars,
                   chanVars, fetchDoneCh, controllerVars, holidayerDoneCh,
                   ctxDone, ingested>>

\* the worker's select: cancellation closes doneCh, a tick fetches
HolidaySelect ==
    /\ Running
    /\ holidayerPc = "select"
    /\ \/ /\ ctxDone
          /\ holidayerDoneCh' = TRUE
          /\ holidayerPc' = "exited"
       \/ \* a tick of the worker's ticker is received
          /\ holidayerPc' = "tickFetch"
          /\ UNCHANGED holidayerDoneCh
    /\ UNCHANGED <<predVars, dbVars, loadVars, clock, cfg, fetcherVars,
                   chanVars, fetchDoneCh, controllerVars, holidays, mainPc,
                   ctxDone, ingested>>

\* ---- Controller

\* runPredictor and predictor.Run, up to the loop of LoadEvents
MainRunPredictor ==
    /\ mainPc = "runPredictor"
    /\ IF ~cfg.predictor
       THEN /\ predictorCh' = TRUE
            /\ controllerPc' = "inactive"
            /\ mainPc' = "runBot"
            /\ UNCHANGED <<predVars, loadVars>>
       ELSE IF ctxDone
       THEN \* GetHolidays fails on the cancelled context
            /\ mainPc' = "exited"
            /\ UNCHANGED <<predVars, loadVars, controllerVars>>
       ELSE /\ holidayChecker' = NewRussianHolidayChecker(holidays, clock.sec)
            /\ stats' = NewStats
            /\ recentEvents' = <<>>
            /\ LoadEventsCall
            /\ mainPc' = "loadEvents"
            /\ UNCHANGED <<checked, lockVars, prediction, controllerVars>>
    /\ UNCHANGED <<dbVars, clock, cfg, fetcherVars, chanVars, fetchDoneCh,
                   holidayerVars, ctxDone, ingested>>

\* a predictor.Run that returned while LoadEvents was still paging
LoadEventsReturnedEarly == loadPc \in {"paging", "done", "failed"}

\* LoadEvents has returned to predictor.Run
LoadEventsReturned == loadPc \in {"done", "failed"}

\* a Controller.Run that started its worker on a nil channel too
ControllerRunAlwaysWorker ==
    /\ controllerPc' = "select"
    /\ UNCHANGED predictorCh

\* Controller.Run: a closed doneCh when the event channel is nil, else the
\* worker
ControllerRun ==
    IF ~cfg.fetcher
    THEN /\ predictorCh' = TRUE
         /\ controllerPc' = "nochannel"
    ELSE /\ controllerPc' = "select"
         /\ UNCHANGED predictorCh

\* predictor.Run returns and runPredictor calls Controller.Run
MainStartController ==
    /\ mainPc = "loadEvents"
    /\ LoadEventsReturned
    /\ IF loadPc = "failed"
       THEN /\ mainPc' = "exited"
            /\ UNCHANGED controllerVars
       ELSE /\ mainPc' = "runBot"
            /\ ControllerRun
    /\ UNCHANGED <<predVars, dbVars, loadVars, clock, cfg, fetcherVars,
                   chanVars, fetchDoneCh, holidayerVars, ctxDone, ingested>>

\* a receive that left the event in the buffer
ReceivePeek(ch) == [event |-> Head(ch), rest |-> ch]

\* event, ok := <-c.eventCh, on a channel that holds an event
Receive(ch) == [event |-> Head(ch), rest |-> Tail(ch)]

\* the worker's select: cancellation, an event, or the closed channel
ControllerSelect ==
    /\ Running
    /\ controllerPc = "select"
    /\ \/ /\ ctxDone
          /\ predictorCh' = TRUE
          /\ controllerPc' = "exited"
          /\ UNCHANGED <<stats, recentEvents, ingested, eventCh>>
       \/ /\ eventCh # <<>>
          /\ AddEvent(Receive(eventCh).event, "live")
          /\ eventCh' = Receive(eventCh).rest
          /\ UNCHANGED controllerVars
       \/ /\ eventCh = <<>>
          /\ eventChClosed
          /\ predictorCh' = TRUE
          /\ controllerPc' = "exited"
          /\ UNCHANGED <<stats, recentEvents, ingested, eventCh>>
    /\ UNCHANGED <<holidayChecker, checked, lockVars, prediction, dbVars, loadVars, clock, cfg,
                   fetcherVars, eventChClosed, sent, fetchDoneCh,
                   holidayerVars, mainPc, ctxDone>>

\* ---- main

\* runTelegramBot: it returns nil, or an error when the bot cannot be set up
MainRunBot ==
    /\ mainPc = "runBot"
    /\ \E err \in BOOLEAN : mainPc' = IF err THEN "exited" ELSE "waitCtx"
    /\ UNCHANGED <<predVars, dbVars, loadVars, clock, cfg, fetcherVars,
                   chanVars, fetchDoneCh, controllerVars, holidayerVars,
                   ctxDone, ingested>>

\* main's waits: <-ctx.Done(), <-predictorCh, <-holidayerDoneCh, <-fetchDoneCh
MainWait ==
    /\ \/ mainPc = "waitCtx" /\ ctxDone /\ mainPc' = "waitPredictor"
       \/ mainPc = "waitPredictor" /\ predictorCh /\ mainPc' = "waitHolidayer"
       \/ mainPc = "waitHolidayer" /\ holidayerDoneCh /\ mainPc' = "waitFetcher"
       \/ mainPc = "waitFetcher" /\ fetchDoneCh /\ mainPc' = "stopped"
    /\ UNCHANGED <<predVars, dbVars, loadVars, clock, cfg, fetcherVars,
                   chanVars, fetchDoneCh, controllerVars, holidayerVars,
                   ctxDone, ingested>>

PastEventsInputs == {{[Timestamp |-> At(1, 5, 10, 0), Load |-> 30]}}

Init ==
    /\ InitPredictor
    /\ holidayChecker = NilChecker
    /\ events \in PastEventsInputs
    /\ InitDb
    /\ InitLoad
    /\ clock = [sec |-> StartTime, sub |-> 0]
    /\ cfg \in CfgInputs
    /\ holidays = {}
    /\ fetcherPc = "off"
    /\ fetchCaller = "run"
    /\ fetchLoad = NoFetch
    /\ fetchEvent = NoEvent
    /\ fetchTick = FALSE
    /\ eventCh = <<>>
    /\ eventChClosed = FALSE
    /\ fetchDoneCh = FALSE
    /\ controllerPc = "off"
    /\ predictorCh = FALSE
    /\ holidayerPc = "off"
    /\ holidayerDoneCh = FALSE
    /\ mainPc = "runFetcher"
    /\ ctxDone = FALSE
    /\ sent = <<>>

Next ==
    \/ ClockTick
    \/ Cancel
    \/ MainRunFetcher
    \/ FetchGetLoad
    \/ FetchSave
    \/ FetchSend
    \/ FetcherTick
    \/ FetcherSelect
    \/ FetcherCloseEventCh
    \/ FetcherCloseDoneCh
    \/ MainRunHolidayer
    \/ HolidayFetch
    \/ HolidaySelect
    \/ MainRunPredictor
    \/ LoadEventsPage
    \/ MainStartController
    \/ ControllerSelect
    \/ MainRunBot
    \/ MainWait

Spec == Init /\ [][Next]_vars

-----------------------------------------------------------------------------
(* Claims about the Predictor, checked under SpecPredictor *)

Predicted == prediction # NoPrediction

\* C2: the day type Predict computes for its target is Holiday exactly when
\* the holiday checker reports the target a holiday, and otherwise it is
\* the DayType constant named after the target's weekday (Monday = 0, ...,
\* Sunday = 6).
C2_DayTypeIsWeekdayConstant ==
    Predicted =>
        LET t == prediction.TargetTime
            holiday == ~holidayChecker.nil /\ IsHoliday(holidayChecker, t)
        IN  /\ (prediction.dayType = Holiday) <=> holiday
            /\ ~holiday => prediction.dayType = DayTypeNamed(WeekdayName(t))

\* the events ingested so far, as a set
IngestedEvents == {ingested[i].ev : i \in 1 .. Len(ingested)}

\* C3: after one event of load 30 classified Holiday and one event of load
\* 40 timestamped on a Sunday at the target hour have been ingested (and
\* nothing else), the base of a prediction for a holiday target at that hour
\* lies strictly between 30 and 40: the Holiday cell is blended with the
\* cell that holds the Sunday events.
C3_HolidayBlendsSundayEvents ==
    ( /\ Predicted
      /\ prediction.IsHoliday
      /\ prediction.Hour = 10
      /\ Len(ingested) = 2
      /\ IngestedEvents = {[Timestamp |-> At(1, 1, 10, 0), Load |-> 30],
                           [Timestamp |-> At(1, 5, 10, 0), Load |-> 40]}
      /\ IsHoliday(holidayChecker, At(1, 1, 10, 0))
      /\ WeekdayName(At(1, 5, 10, 0)) = "Sunday" )
    => (30 * Scale < prediction.base /\ prediction.base < 40 * Scale)

\* C4: the load of every prediction is a number in [0, 100].
C4_LoadInRange ==
    Predicted =>
        /\ ~prediction.Load.nan
        /\ 0 <= prediction.Load.v
        /\ prediction.Load.v <= 100 * Scale

\* C5: the confidence of every prediction is in [0, 1].
C5_ConfidenceInUnitInterval ==
    Predicted => (0 <= prediction.Confidence /\ prediction.Confidence <= Scale)

-----------------------------------------------------------------------------
(* Claims about the events table and LoadEvents, checked under SpecBackfill *)

\* C7, as claimed: SaveEvent of an event whose timestamp is already stored
\* succeeds and replaces the stored row, so that afterwards exactly one event
\* with that timestamp exists and it carries the new load.
C7_SaveEventReplaces ==
    [][\A e \in DbEventInputs :
           (SaveEventOf(e) /\ DuplicateKey(events, e)) =>
               /\ saveErr' = FALSE
               /\ {r \in events' : r.Timestamp = e.Timestamp} = {e}]_vars

\* C7, amended: SaveEvent of an event whose timestamp is already stored
\* fails with an error and leaves the table as it was, so that afterwards
\* exactly one event with that timestamp exists and it carries the old load.
C7_SaveEventRejectsDuplicate ==
    [][\A e \in DbEventInputs :
           (SaveEventOf(e) /\ DuplicateKey(events, e)) =>
               /\ saveErr' = TRUE
               /\ events' = events
               /\ Cardinality({r \in events' : r.Timestamp = e.Timestamp}) = 1]_vars

\* SaveEvent has been called with a stored timestamp and another load
C7_Witness ==
    /\ saveErr
    /\ Len(lastSave) = 1
    /\ \E r \in events : /\ r.Timestamp = lastSave[1].Timestamp
                         /\ r.Load # lastSave[1].Load

\* the events LoadEvents has ingested, in order
BackfillSeq ==
    LET b == SelectSeq(ingested, LAMBDA x : x.src = "backfill")
    IN  [i \in 1 .. Len(b) |-> b[i].ev]

BackfillExact ==
    LET b == BackfillSeq
        got == {b[i] : i \in 1 .. Len(b)}
    IN  /\ \A i \in 1 .. Len(b) - 1 : b[i].Timestamp < b[i + 1].Timestamp
        /\ loadSnapshot \subseteq got
        /\ got \subseteq events

\* C8: LoadEvents terminates: every iteration of its loop (a step that
\* changes loadPc or offset while it is paging) either ends it or advances
\* the offset, which never exceeds the number of stored rows.  When it has
\* ended it has ingested every event that was persisted when it was called
\* (and nothing that is not persisted), each exactly once, in strictly
\* ascending timestamp order.
C8_BackfillExactlyOnceAscending ==
    [][/\ (loadPc = "paging" /\ <<loadPc, offset>>' # <<loadPc, offset>>) =>
              \/ loadPc' = "done"
              \/ offset < offset' /\ offset' <= Cardinality(events')
       /\ (loadPc' = "done") => BackfillExact']_vars

\* LoadEvents has finished over more rows than one page holds
C8_Witness ==
    /\ loadPc = "done"
    /\ Cardinality(loadSnapshot) > limit
    /\ Len(BackfillSeq) = Cardinality(events)

-----------------------------------------------------------------------------
(* Claims about the running process, checked under Spec *)

WaitPcs == {"waitCtx", "waitPredictor", "waitHolidayer", "waitFetcher"}

\* a step of the program itself (not the clock, a ticker or the signal) is
\* possible
ProgramCanStep ==
    \/ mainPc = "waitCtx" /\ ctxDone
    \/ mainPc = "waitPredictor" /\ predictorCh
    \/ mainPc = "waitHolidayer" /\ holidayerDoneCh
    \/ mainPc = "waitFetcher" /\ fetchDoneCh
    \/ fetcherPc \in {"getLoad", "save", "closeEventCh", "closeDoneCh"}
    \/ fetcherPc = "send" /\ Len(eventCh) < eventChCap
    \/ fetcherPc = "select" /\ (ctxDone \/ fetchTick)
    \/ holidayerPc \in {"initFetch", "tickFetch", "select"}
    \/ controllerPc = "select" /\ (ctxDone \/ eventCh # <<>> \/ eventChClosed)

\* C1: once cancellation is signalled and main is in its wait sequence, the
\* shutdown always goes on: as long as the process has not reached "stopped",
\* main or one of the workers can take a step towards it (no state is
\* reached where main waits for a completion channel that nobody will close).
C1_ShutdownNeverStuck ==
    (ctxDone /\ mainPc \in WaitPcs) => ProgramCanStep

\* the currentLoad strings the contract accepts: after the trailing '%' is
\* stripped, the decimal digits of an integer of 0 .. 100
ValidCurrentLoad(s) ==
    LET t == TrimRight(s)
    IN  /\ t # <<>>
        /\ \A i \in 1 .. Len(t) : IsDigit(t[i])
        /\ DecimalValue(t) <= 100

\* C6: a response whose currentLoad is not an integer of 0 .. 100 makes the
\* fetch fail: the fetch goes on to save and send only with a valid
\* currentLoad, and every event LoadFetcher persisted or sent has a load of
\* at most 100.
C6_InvalidLoadRejected ==
    /\ fetcherPc \in {"save", "send"} => ValidCurrentLoad(fetchLoad.resp)
    /\ \A i \in 1 .. Len(sent) : sent[i].Load <= 100
    /\ \A r \in events : r.Timestamp >= StartTime => r.Load <= 100

IsPrefix(a, b) == Len(a) <= Len(b) /\ a = SubSeq(b, 1, Len(a))

\* the events the Controller's worker has ingested from the channel, in order
LiveIngested ==
    LET live == SelectSeq(ingested, LAMBDA x : x.src = "live")
    IN  [i \in 1 .. Len(live) |-> live[i].ev]

\* C9: at every moment the sequence of events the Controller's worker has
\* ingested from the channel is a prefix of the sequence of events
\* LoadFetcher has sent on it.
C9_LiveIngestedIsPrefixOfSent == IsPrefix(LiveIngested, sent)

\* two events were sent and both were ingested, in that order
C9_Witness ==
    /\ Len(sent) >= 2
    /\ LiveIngested = sent
    /\ sent[1] # sent[2]

\* C10: of any two events sent on LoadFetcher's channel, the later one has
\* the strictly greater timestamp, though timestamps are whole seconds and
\* two fetches may complete within the same second.
C10_SentTimestampsIncrease ==
    \A i \in 1 .. Len(sent), j \in 1 .. Len(sent) :
        i < j => sent[i].Timestamp < sent[j].Timestamp

\* two events were sent, and a further fetch completed in the second of the
\* last one: its save was refused and it sent nothing
C10_Witness ==
    /\ Len(sent) >= 2
    /\ ~ctxDone
    /\ saveErr
    /\ fetcherPc = "select"
    /\ lastSave # <<>>
    /\ lastSave[1].Timestamp = sent[Len(sent)].Timestamp

\* C11: an event is sent on the channel only by a fetch that has already
\* persisted it, with the same timestamp and load; a fetch whose getLoad or
\* SaveEvent fails returns without sending anything.
C11_SentOnlyAfterPersisted ==
    [][/\ sent' # sent =>
              /\ fetcherPc = "send"
              /\ sent' = Append(sent, fetchEvent)
              /\ eventCh' = Append(eventCh, fetchEvent)
              /\ fetchEvent \in events
              /\ \A i \in 1 .. Len(sent') : sent'[i] \in events'
       /\ (fetcherPc \in {"getLoad", "save"} /\ fetcherPc' \in {"select", "failed"}) =>
              sent' = sent /\ eventCh' = eventCh]_vars

\* a fetch on a tick was refused by SaveEvent after an event had been sent
C11_Witness ==
    /\ Len(sent) = 1
    /\ sent[1] \in events
    /\ fetchCaller = "worker"
    /\ fetcherPc = "select"
    /\ saveErr
    /\ ~ctxDone

\* C12: the LoadFetcher worker closes the event channel before its completion
\* channel: when the worker's completion channel is closed the event channel
\* is closed, each is closed once (never when already closed), and nothing
\* is sent on the event channel once it is closed.
C12_EventChClosedBeforeDoneCh ==
    [][/\ (cfg.fetcher /\ fetchDoneCh') => eventChClosed'
       /\ (fetcherPc = "closeEventCh" /\ fetcherPc' # fetcherPc) =>
              ~eventChClosed /\ eventChClosed' /\ ~fetchDoneCh'
       /\ (fetcherPc = "closeDoneCh" /\ fetcherPc' # fetcherPc) =>
              eventChClosed /\ ~fetchDoneCh /\ fetchDoneCh'
       /\ eventChClosed => eventChClosed' /\ sent' = sent
       /\ fetchDoneCh => fetchDoneCh']_vars

\* the worker has closed both channels after cancellation
C12_Witness ==
    /\ cfg.fetcher
    /\ ctxDone
    /\ fetcherPc = "exited"
    /\ eventChClosed
    /\ fetchDoneCh

\* the initial fetch of Fetcher.Run is in progress
FetcherRunFetching ==
    fetchCaller = "run" /\ fetcherPc \in {"getLoad", "save", "send"}

\* C13: Run of LoadFetcher and of HolidayFetcher makes one synchronous fetch
\* before any worker exists: main waits in Run during it, the worker's loop
\* is entered only when that fetch has succeeded, and a failed initial fetch
\* makes Run return the error with no completion channel; the component then
\* starts no worker and never fetches again.
C13_OneInitialFetchThenWorker ==
    [][/\ (fetcherPc' = "getLoad" /\ fetcherPc # "getLoad") =>
              \/ fetcherPc = "off" /\ mainPc = "runFetcher" /\ fetchCaller' = "run"
              \/ fetcherPc = "select" /\ fetchCaller' = "worker"
       /\ FetcherRunFetching =>
              /\ mainPc = "fetcherRun"
              /\ ~fetchTick /\ ~fetchTick'
              /\ ~fetchDoneCh'
       /\ (FetcherRunFetching /\ fetcherPc' = "select") => fetcherPc = "send"
       /\ (FetcherRunFetching /\ fetcherPc \in {"getLoad", "save"}
               /\ fetcherPc' \notin {"getLoad", "save", "send"}) =>
              fetcherPc' = "failed" /\ mainPc' = "exited"
       /\ fetcherPc = "failed" =>
              /\ UNCHANGED <<fetcherVars, fetchDoneCh, events, sent>>
              /\ ~fetchDoneCh
       /\ (holidayerPc' = "initFetch" /\ holidayerPc # "initFetch") =>
              holidayerPc = "off" /\ mainPc = "runHolidayer"
       /\ holidayerPc = "initFetch" =>
              /\ mainPc = "holidayerRun"
              /\ ~holidayerDoneCh'
              /\ holidayerPc' \in {"initFetch", "select", "failed"}
              /\ holidayerPc' = "failed" => mainPc' = "exited" /\ holidays' = holidays
              /\ (ctxDone /\ holidayerPc' # "initFetch") => holidayerPc' = "failed"
       /\ holidayerPc = "failed" =>
              UNCHANGED holidayerVars /\ ~holidayerDoneCh]_vars

\* Fetcher.Run has returned the error of its initial fetch
C13_Witness ==
    /\ fetcherPc = "failed"
    /\ mainPc = "exited"
    /\ eventChClosed
    /\ ~fetchDoneCh
    /\ sent = <<>>

\* a fetch made on a tick fails in this step: it leaves getLoad or save
\* without going on towards the send
FetcherTickFetchFails ==
    /\ fetchCaller = "worker"
    /\ fetcherPc \in {"getLoad", "save"}
    /\ fetcherPc' \notin {"getLoad", "save", "send"}

\* C14: a fetch that fails on a tick leaves the worker in its loop with no
\* channel closed; from the loop an uncancelled worker goes on only by taking
\* a tick into another fetch, and only cancellation makes a worker leave the
\* loop (LoadFetcher and HolidayFetcher alike).
C14_TickFailureKeepsWorker ==
    [][/\ FetcherTickFetchFails =>
              /\ fetcherPc' = "select"
              /\ UNCHANGED <<eventChClosed, fetchDoneCh, mainPc>>
       /\ (fetcherPc = "select" /\ fetcherPc' # "select") =>
              \/ fetchTick /\ fetcherPc' = "getLoad" /\ fetchCaller' = "worker"
              \/ ctxDone /\ fetcherPc' = "closeEventCh"
       /\ (fetcherPc' = "closeEventCh" /\ fetcherPc # "closeEventCh") =>
              ctxDone /\ fetcherPc = "select"
       /\ (holidayerPc = "tickFetch" /\ holidayerPc' # "tickFetch") =>
              /\ holidayerPc' = "select"
              /\ UNCHANGED <<holidayerDoneCh, mainPc>>
       /\ (holidayerPc = "select" /\ holidayerPc' # "select") =>
              \/ holidayerPc' = "tickFetch"
              \/ ctxDone /\ holidayerPc' = "exited"
       /\ (holidayerPc' = "exited" /\ holidayerPc # "exited") =>
              ctxDone /\ holidayerPc = "select"]_vars

\* a fetch on a tick failed in SaveEvent and a later tick has started
\* another fetch
C14_Witness ==
    /\ fetchCaller = "worker"
    /\ fetcherPc = "getLoad"
    /\ saveErr
    /\ ~ctxDone
    /\ ~eventChClosed
    /\ ~fetchDoneCh

\* C15: Controller.Run with no event channel returns a closed completion
\* channel and starts no worker. Otherwise there is one worker: it leaves its
\* loop only on cancellation or on the closed and drained event channel,
\* closes the completion channel at that moment and only then, and nothing
\* is ingested afterwards; once the event channel is closed every further
\* step of the worker shortens what is left in the buffer.
C15_ControllerRunTerminates ==
    [][/\ (~cfg.fetcher /\ controllerPc' # controllerPc) =>
              /\ controllerPc = "off"
              /\ controllerPc' \in {"nochannel", "inactive"}
              /\ predictorCh'
       /\ (controllerPc' = "select" /\ controllerPc # "select") =>
              controllerPc = "off" /\ cfg.fetcher /\ ~predictorCh'
       /\ (controllerPc = "select" /\ controllerPc' # "select") =>
              /\ controllerPc' = "exited"
              /\ ctxDone \/ (eventChClosed /\ eventCh = <<>>)
              /\ ~predictorCh /\ predictorCh'
              /\ ingested' = ingested
       /\ (controllerPc = "select" /\ controllerPc' = "select") => ~predictorCh'
       /\ (controllerPc = "select" /\ eventChClosed /\ ingested' # ingested) =>
              Len(eventCh') < Len(eventCh)
       /\ controllerPc \in {"exited", "nochannel", "inactive"} =>
              /\ UNCHANGED controllerVars
              /\ predictorCh
              /\ ingested' = ingested]_vars

\* the worker ingested an event from the channel and has terminated
C15_Witness ==
    /\ controllerPc = "exited"
    /\ predictorCh
    /\ Len(LiveIngested) >= 1

\* C16: no event received from the channel is ingested before the backfill
\* has ingested its last event: in the order of ingestion every backfilled
\* event comes before every live one, and the worker ingests only once
\* LoadEvents is done.
C16_BackfillBeforeLive ==
    /\ \A i \in 1 .. Len(ingested), j \in 1 .. Len(ingested) :
           (i < j /\ ingested[i].src = "live") => ingested[j].src = "live"
    /\ (\E i \in 1 .. Len(ingested) : ingested[i].src = "live") =>
           loadPc = "done"

\* two pages were backfilled and then an event of the channel was ingested
C16_Witness ==
    /\ Len(ingested) > limit + 1
    /\ ingested[1].src = "backfill"
    /\ ingested[limit + 1].src = "backfill"
    /\ ingested[Len(ingested)].src = "live"

\* C17: on a Predictor that has ingested nothing, Predict(hoursAhead) with
\* hoursAhead >= 1 returns the load 25.0 and the confidence 0.3, and its
\* IsHoliday is what the holiday checker says of now + hoursAhead hours (no
\* holiday when there is no checker), for holiday and other targets alike.
C17_EmptyPredictorDefaults ==
    (Predicted /\ ingested = <<>> /\ prediction.hoursAhead >= 1) =>
        LET target == prediction.now + prediction.hoursAhead * SecondsPerHour
        IN  /\ prediction.Load = Num(25 * Scale)
            /\ 10 * prediction.Confidence = 3 * Scale
            /\ prediction.TargetTime = target
            /\ prediction.IsHoliday =
                   (~holidayChecker.nil /\ IsHoliday(holidayChecker, target))

\* an empty Predictor has predicted for a target that is a holiday
C17_Witness ==
    /\ Predicted
    /\ ingested = <<>>
    /\ prediction.hoursAhead >= 1
    /\ prediction.IsHoliday
    /\ prediction.Load = Num(25 * Scale)

\* an empty Predictor has predicted for a target that is no holiday
C17_WitnessWorkday ==
    /\ Predicted
    /\ ingested = <<>>
    /\ prediction.hoursAhead >= 1
    /\ ~prediction.IsHoliday
    /\ ~holidayChecker.nil

-----------------------------------------------------------------------------
(* Claims about the cells and the window *)

\* C18: after any sequence of ingests every cell has TotalWeight >= 0 and
\* WeightedSum >= 0, and a cell whose TotalWeight is 0 has the zero
\* LastUpdate.
C18_CellsNonNegative ==
    \A c \in DOMAIN stats :
        /\ stats[c].TotalWeight >= 0
        /\ stats[c].WeightedSum >= 0
        /\ stats[c].TotalWeight = 0 => stats[c].LastUpdate = ZeroTime

\* a cell has taken an event after a later one, and another cell is untouched
C18_Witness ==
    /\ \E c \in DOMAIN stats :
           /\ stats[c].Count >= 2
           /\ \E i \in 1 .. Len(ingested), j \in 1 .. Len(ingested) :
                  /\ i < j
                  /\ ingested[j].ev.Timestamp < ingested[i].ev.Timestamp
                  /\ stats[c].LastUpdate = ingested[j].ev.Timestamp
    /\ \E c \in DOMAIN stats : stats[c].TotalWeight = 0

\* the events ingested into the cell of event e
SameCell(e) ==
    SelectSeq(ingested,
              LAMBDA x : /\ getDayType(holidayChecker, x.ev.Timestamp) =
                              getDayType(holidayChecker, e.Timestamp)
                         /\ Hour(x.ev.Timestamp) = Hour(e.Timestamp))

\* every event ingested into the cell of event e carries e's load
UniformCell(e) ==
    \A i \in 1 .. Len(SameCell(e)) : SameCell(e)[i].ev.Load = e.Load

CellOf(e) == stats[<<getDayType(holidayChecker, e.Timestamp), Hour(e.Timestamp)>>]

\* C19 as claimed: when every event ingested into a cell carries the same
\* load L, the cell's WeightedSum / TotalWeight is exactly L
\* (WeightedSum = L * TotalWeight), whatever the gaps between the events.
C19_UniformCellMeanExact ==
    \A i \in 1 .. Len(ingested) :
        UniformCell(ingested[i].ev) =>
            CellOf(ingested[i].ev).WeightedSum =
                ingested[i].ev.Load * CellOf(ingested[i].ev).TotalWeight

\* the rounding error of the sums of a cell after n events of load L: each
\* decay step rounds the two products separately, by less than one unit of
\* the last place each
RoundingError(n, L) == (n - 1) * (L + 1)

\* C19 as the code has it: when every event ingested into a cell carries the
\* same load L, the cell's WeightedSum / TotalWeight equals L up to the
\* rounding error of the decay steps (WeightedSum differs from
\* L * TotalWeight by at most the accumulated rounding error), whatever the
\* gaps between the events.
C19_UniformCellMeanWithinRounding ==
    \A i \in 1 .. Len(ingested) :
        UniformCell(ingested[i].ev) =>
            LET cell == CellOf(ingested[i].ev)
                L == ingested[i].ev.Load
                diff == cell.WeightedSum - L * cell.TotalWeight
            IN  /\ diff <= RoundingError(cell.Count, L)
                /\ -diff <= RoundingError(cell.Count, L)

\* a cell took three events of the same load a week apart each: two decay
\* steps
C19_Witness ==
    /\ Len(ingested) >= 3
    /\ UniformCell(ingested[1].ev)
    /\ ingested[1].ev.Timestamp < ingested[2].ev.Timestamp
    /\ ingested[2].ev.Timestamp < ingested[3].ev.Timestamp
    /\ CellOf(ingested[1].ev).Count >= 3
    /\ CellOf(ingested[1].ev).TotalWeight < 3 * Scale

\* C20: after n ingests the window holds the last Min(n, maxRecentCount)
\* ingested events in arrival order, and never more than maxRecentCount.
C20_WindowIsLastEvents ==
    LET n == Len(ingested)
        k == Min(n, maxRecentCount)
    IN  /\ Len(recentEvents) <= maxRecentCount
        /\ recentEvents = [i \in 1 .. k |-> ingested[n - k + i].ev]

\* more events were ingested than the window holds, and the oldest was
\* dropped
C20_Witness ==
    /\ Len(ingested) > maxRecentCount
    /\ Len(recentEvents) = maxRecentCount
    /\ recentEvents[1] # ingested[1].ev
    /\ recentEvents[1] = ingested[Len(ingested) - maxRecentCount + 1].ev


-----------------------------------------------------------------------------
(* Claims about Controller.PredictLoad *)

\* PredictLoad has been called since the last ingest
PredictedLoad == prediction # NoPrediction

C22_PredictValuesInRange ==
    PredictedLoad =>
        \A i \in 1 .. Len(prediction.events) :
            /\ ~prediction.events[i].Predict.nan
            /\ 0 <= prediction.events[i].Predict.v
            /\ prediction.events[i].Predict.v <= 100 * Scale


-----------------------------------------------------------------------------
(* Claims about the holidays table and InTransaction *)

\* the last storage call was a committed SaveManyHolidaysTx of a list with
\* entries
CommittedReplace ==
    /\ lastSave.op = "InTransaction"
    /\ lastSave.outcome = "ok"
    /\ ~saveErr
    /\ lastSave.list # <<>>

ListEntries(list) == {list[i] : i \in 1 .. Len(list)}

\* the date of row r lies between the start of the year of the earliest day
\* of the list and the end of the year of its latest day
InYearRange(r, list) ==
    /\ \E e \in ListEntries(list) : e.Year <= r.Year
    /\ \E e \in ListEntries(list) : r.Year <= e.Year

\* C23 as claimed: after a committed SaveManyHolidaysTx of a non-empty list
\* the stored holidays in the year range of the list are exactly the entries
\* of the list, and the stored holidays outside it are unchanged.
C23_RangeHoldsExactlyList ==
    CommittedReplace =>
        /\ {r \in holidays : InYearRange(r, lastSave.list)} =
               ListEntries(lastSave.list)
        /\ {r \in holidays : ~InYearRange(r, lastSave.list)} =
               {r \in lastSave.before : ~InYearRange(r, lastSave.list)}

\* C23 as the code has it: after a committed SaveManyHolidaysTx of a
\* non-empty list the stored holidays in the year range of the list are the
\* entries of the list, the last one only of the entries that name the same
\* day, and the stored holidays outside the range are unchanged.
C23_RangeHoldsLastEntryOfEachDay ==
    CommittedReplace =>
        LET list == lastSave.list
            last == {list[i] : i \in {k \in 1 .. Len(list) :
                        \A j \in k + 1 .. Len(list) :
                            ~SameDay(list[j], list[k])}}
        IN  /\ {r \in holidays : InYearRange(r, list)} = last
            /\ {r \in holidays : ~InYearRange(r, list)} =
                   {r \in lastSave.before : ~InYearRange(r, list)}

\* a committed replace removed a stored holiday of a year between the years
\* of the list and kept one outside the range
C23_Witness ==
    /\ CommittedReplace
    /\ \E r \in lastSave.before :
           /\ InYearRange(r, lastSave.list)
           /\ \A e \in ListEntries(lastSave.list) : e.Year # r.Year
           /\ r \notin holidays
    /\ \E r \in lastSave.before : ~InYearRange(r, lastSave.list)

RequestFailed(resp) ==
    \/ resp.status # 200
    \/ /\ ~HasPrefix(resp.contentType, <<"text/xml">>)
       /\ ~HasPrefix(resp.contentType, <<"application/xml">>)
    \/ ~resp.decodable
    \/ \E i \in 1 .. Len(resp.days) :
           /\ resp.days[i].Type \in {1, 2}
           /\ ParseMonthDay(resp.days[i].Date).err

\* C25: when one of the two yearly requests of a Fetch fails, Fetch returns
\* an error and the holidays table is as it was, also when the other year's
\* answer was valid.
C25_FailedRequestLeavesTable ==
    (/\ lastSave.op = "Fetch"
     /\ RequestFailed(lastSave.this) \/ RequestFailed(lastSave.next)) =>
        /\ saveErr
        /\ holidays = lastSave.before

\* this year's calendar arrived with a holiday the table lacked, and the next
\* year's request failed
C25_Witness ==
    /\ lastSave.op = "Fetch"
    /\ ~RequestFailed(lastSave.this)
    /\ RequestFailed(lastSave.next)
    /\ \E e \in ListEntries(getHolidays(lastSave.this).holidays) :
           e \notin lastSave.before
    /\ lastSave.before # {}
    /\ saveErr

\* the closure of the last InTransaction wrote something
ClosureWrote ==
    /\ lastSave.op = "InTransaction"
    /\ SaveManyHolidaysTx(lastSave.before, lastSave.list) # lastSave.before

\* C26: when the closure of InTransaction panics, the transaction is rolled
\* back before the panic reaches the caller: none of its writes is visible
\* and the connection is free for the next storage call.
C26_PanicRollsBack ==
    (lastSave.op = "InTransaction" /\ lastSave.panic) =>
        /\ holidays = lastSave.before
        /\ ~txOpen

\* C27 as claimed: when the closure returns an error, InTransaction returns
\* an error and the table is as before the call; when the closure returns no
\* error, all its writes are committed.
C27_ErrorRollsBackElseCommitted ==
    /\ (lastSave.op = "InTransaction" /\ lastSave.outcome = "error") =>
           saveErr /\ holidays = lastSave.before
    /\ (lastSave.op = "InTransaction" /\ lastSave.outcome = "ok") =>
           holidays = SaveManyHolidaysTx(lastSave.before, lastSave.list)

\* C27 as the code has it: when the closure returns an error, InTransaction
\* returns an error and the table is as before the call; when the closure
\* returns no error, InTransaction commits all its writes together and
\* returns no error, unless the commit fails: then it returns an error and
\* none of the writes is visible.
C27_ErrorRollsBackElseCommitOrNothing ==
    /\ (lastSave.op = "InTransaction" /\ lastSave.outcome = "error") =>
           saveErr /\ holidays = lastSave.before
    /\ (lastSave.op = "InTransaction" /\ lastSave.outcome = "ok") =>
           IF lastSave.commitErr
           THEN saveErr /\ holidays = lastSave.before
           ELSE /\ ~saveErr
                /\ holidays = SaveManyHolidaysTx(lastSave.before,
                                                  lastSave.list)

\* a closure that had written returned an error
C27_Witness ==
    /\ ClosureWrote
    /\ lastSave.outcome = "error"
    /\ saveErr
    /\ lastSave.before # {}


-----------------------------------------------------------------------------
(* Claims about the errors of the fetch and of the events table *)

\* C28: a load response with status 200 and a valid body whose Content-Type
\* does not begin with application/json makes Fetch fail: Fetch goes on to
\* save and to send an event only after a response of that content type.
C28_WrongContentTypeRejected ==
    fetcherPc \in {"save", "send"} =>
        HasPrefix(fetchLoad.contentType, <<"application/json">>)


\* C29: SaveEvent of an event whose timestamp is already stored returns an
\* error and leaves the stored event and its load unchanged, whereas
\* SaveManyEvents returns no error and leaves, for every timestamp of its
\* list, one row that carries the load of the last entry of the list with
\* that timestamp, whatever load was stored for it.
C29_DuplicateRejectedBulkReplaces ==
    [][/\ \A e \in DbEventInputs :
              (SaveEventOf(e) /\ DuplicateKey(events, e)) =>
                  /\ saveErr'
                  /\ \A r \in events :
                         r.Timestamp = e.Timestamp => r \in events'
                  /\ e.Load \notin {r.Load : r \in {q \in events :
                                        q.Timestamp = e.Timestamp}}
                         => e \notin events'
       /\ SaveManyEventsStep =>
              LET es == lastSave'
              IN  /\ ~saveErr'
                  /\ \A i \in 1 .. Len(es) :
                         {r.Load : r \in {q \in events' :
                                     q.Timestamp = es[i].Timestamp}} =
                         {es[CHOOSE k \in i .. Len(es) :
                                 /\ es[k].Timestamp = es[i].Timestamp
                                 /\ \A j \in k + 1 .. Len(es) :
                                        es[j].Timestamp # es[i].Timestamp].Load}
      ]_vars

\* SaveManyEvents has replaced the load stored for a timestamp by the load of
\* the last entry of a list that names the timestamp twice
C29_Witness ==
    /\ ~saveErr
    /\ Len(lastSave) = 2
    /\ lastSave[1].Timestamp = lastSave[2].Timestamp
    /\ lastSave[1].Load # lastSave[2].Load
    /\ lastSave[2] \in events
    /\ lastSave[1] \notin events


-----------------------------------------------------------------------------
(* Claims about the holiday checker *)

\* the checker has been asked since it was built
Checked == checked # NoAnswer

\* the answers are those for every instant of the same month and day, in
\* whatever year
SameAnswerEveryYear ==
    \A t \in CheckerQueryInputs :
        Date(t) = Date(checked.t) =>
            /\ IsHoliday(holidayChecker, t) = checked.IsHoliday
            /\ HolidayTitle(holidayChecker, t) = checked.HolidayTitle

\* C30 as claimed: the answers of the checker depend on the month and day of
\* the instant only; the title is empty exactly for the dates that are not in
\* the set; a checker built from an empty table reports no holiday.
C30_TitleEmptyExactlyOffHolidays ==
    Checked =>
        /\ SameAnswerEveryYear
        /\ (checked.HolidayTitle = "") <=> ~checked.IsHoliday
        /\ holidays = {} => ~checked.IsHoliday

\* C30 as the code has it: the answers of the checker depend on the month
\* and day of the instant only; the title is empty for the dates that are
\* not in the set and is the stored title, which may be empty too, for those
\* that are; a checker built from an empty table reports no holiday.
C30_TitleIsStoredTitle ==
    Checked =>
        /\ SameAnswerEveryYear
        /\ ~checked.IsHoliday => checked.HolidayTitle = ""
        /\ checked.IsHoliday =>
               \E r \in holidays :
                   /\ <<r.Month, r.Day>> = Date(checked.t)
                   /\ r.Title = checked.HolidayTitle
        /\ holidays = {} => ~checked.IsHoliday

\* the checker was asked about a holiday in a year other than the one its
\* holidays were stored for
C30_Witness ==
    /\ Checked
    /\ checked.IsHoliday
    /\ checked.HolidayTitle # ""
    /\ \A r \in holidays :
           <<r.Month, r.Day>> = Date(checked.t) =>
               r.Year # checked.t \div (DaysPerYear * SecondsPerDay)


-----------------------------------------------------------------------------
(* Claims about backfill and live consumption together *)

\* the number of AddEvent calls that ingested the event e
TimesIngested(e) ==
    Cardinality({j \in 1 .. Len(ingested) : ingested[j].ev = e})

\* C31: across backfill and live consumption together each event LoadFetcher
\* has persisted and sent is ingested into the Predictor at most once; the
\* event of the initial fetch, once ingested, has added 1 to the count and
\* 1.0 to the weight of its cell, not 2: while it is the only event of its
\* cell the cell has Count 1 and TotalWeight 1.0.
C31_PersistedIngestedAtMostOnce ==
    /\ \A i \in 1 .. Len(sent) : TimesIngested(sent[i]) <= 1
    /\ ( /\ Len(sent) >= 1
         /\ TimesIngested(sent[1]) >= 1
         /\ \A j \in 1 .. Len(SameCell(sent[1])) :
                SameCell(sent[1])[j].ev = sent[1] )
       => ( /\ CellOf(sent[1]).Count = 1
            /\ CellOf(sent[1]).TotalWeight = Scale )


\* the worker of LoadFetcher is inside a Fetch that cannot return: it is
\* blocked in the send on the full event channel and nothing will ever
\* receive from the channel (the predictor is inactive, or the Controller's
\* worker is gone)
FetchBlockedForEver ==
    /\ fetchCaller = "worker"
    /\ fetcherPc = "send"
    /\ Len(eventCh) >= eventChCap
    /\ controllerPc \in {"inactive", "exited"}

\* C32: as long as cancellation has not been signalled, every tick of
\* LoadFetcher's ticker eventually leads to a fetch invocation, in every
\* configuration in which the fetcher is active, the one with an inactive
\* predictor included: no state is reached in which the process runs
\* uncancelled, a tick waits in the ticker's channel and the worker is for
\* ever blocked inside the previous fetch.
C32_TickLeadsToFetch ==
    (Running /\ ~ctxDone /\ cfg.fetcher /\ fetchTick) => ~FetchBlockedForEver


-----------------------------------------------------------------------------
(* Claims about the Predictor's lock, checked under SpecLock *)

\* C33: every read or write of the Predictor's state by a public operation
\* (AddEvent, Predict, PredictRange, GetTypicalLoad, String) happens while
\* the lock is held: AddEvent is between its steps only as the writer and
\* alone, every read of a cell is made by a holder of at least the read
\* lock, no read observes a cell between an ingest's decay step and its
\* accumulate step, and no goroutine acquires the lock it holds (the lock
\* counts at most the one reading goroutine).
C33_StateOnlyUnderLock ==
    /\ calls["writer"].pc # "idle" => mu.writer
    /\ mu.writer => mu.readers = 0
    /\ mu.readers = (IF calls["reader"].pc = "rlocked" THEN 1 ELSE 0)
    /\ observed # NoRead => (observed.locked /\ ~observed.midIngest)

\* the two steps of AddEvent together are AddEvent's change of the cell
StepsAreAddToCell ==
    calls["writer"].pc = "locked" =>
        LET e == calls["writer"].ev
            s == stats[CellKey(e.Timestamp)]
        IN  AccumulateCell(DecayCell(s, e), e) = AddToCell(s, e)


-----------------------------------------------------------------------------
(* Claims about Predict's fallback and trend, checked under SpecPredictor *)

\* the average of a day-type row over its 24 hours: the sum of WeightedSum
\* over the sum of TotalWeight of its cells, averageLoad for an empty row
RowAverage(dayType) ==
    LET cells == {c \in DOMAIN stats : c[1] = dayType /\ stats[c].TotalWeight > 0}
        sum == RowSum(stats, dayType, 0, "WeightedSum")
        weight == RowSum(stats, dayType, 0, "TotalWeight")
    IN  IF cells = {} THEN averageLoad ELSE (sum * Scale) \div weight

\* C34: for any target, holiday or not, whose own cell has TotalWeight <
\* minWeight, except a Holiday target whose Sunday cell at that hour has
\* TotalWeight >= minWeight, Predict returns confidence 0.3 and a base
\* (before trend correction and clamping) equal to the day-type fallback of
\* the target's day-type row.
C34_LowWeightUsesFallback ==
    Predicted =>
        LET dt == prediction.dayType
            own == stats[<<dt, prediction.Hour>>]
            sunday == stats[<<Sunday, prediction.Hour>>]
        IN  ( /\ own.TotalWeight < minWeight
              /\ ~(dt = Holiday /\ sunday.TotalWeight >= minWeight) )
            => /\ 10 * prediction.Confidence = 3 * Scale
               /\ prediction.base = RowAverage(dt)


\* the window is long enough for the trend and the target is near enough
TrendApplies ==
    /\ prediction.hoursAhead <= 3
    /\ Len(recentEvents) >= trendMinCount

\* (load of the newest - load of the oldest event of the window) / the hours
\* between them, 0 when they are less than 0.1 hours apart
Slope ==
    LET oldest == recentEvents[1]
        newest == recentEvents[Len(recentEvents)]
        span == MulDiv(newest.Timestamp - oldest.Timestamp, Scale,
                       SecondsPerHour)
    IN  IF span < 100 THEN 0
        ELSE ((newest.Load - oldest.Load) * Scale * Scale) \div span

\* C35 as claimed: the trend correction changes the base exactly when
\* hoursAhead <= 3 and the window holds the required number of events; when
\* it is applied for hoursAhead in 1..3 the adjustment equals slope * 0.3
\* whatever hoursAhead is, where the slope is 0 whenever the span of the
\* window is below 0.1 hours (negative spans included).
C35_TrendChangesBaseExactlyWhenApplied ==
    Predicted =>
        /\ (prediction.corrected # Num(prediction.base)) <=> TrendApplies
        /\ (TrendApplies /\ prediction.hoursAhead >= 1) =>
               prediction.corrected =
                   Num(prediction.base + (Slope * 300) \div Scale)

\* C35 as the code has it: the base is left as it is when hoursAhead > 3 or
\* the window holds fewer than the required number of events; when
\* hoursAhead is in 1..3 and the window is long enough the adjustment is
\* slope * 0.3 up to the rounding of 0.3 / hoursAhead * hoursAhead, whatever
\* hoursAhead is, and so it is nothing when the slope is 0, which it is
\* whenever the span of the window is below 0.1 hours (negative spans
\* included).
C35_TrendIsSlopeTimesWeight ==
    Predicted =>
        /\ ~TrendApplies => prediction.corrected = Num(prediction.base)
        /\ (TrendApplies /\ prediction.hoursAhead >= 1) =>
               LET exact == prediction.base + (Slope * 300) \div Scale
                   diff == prediction.corrected.v - exact
               IN  /\ ~prediction.corrected.nan
                   /\ diff < prediction.hoursAhead
                   /\ -diff < prediction.hoursAhead
                   /\ Slope = 0 => prediction.corrected = Num(prediction.base)

\* a prediction three hours ahead was corrected by a falling trend, over a
\* window whose newest event is the oldest in time among those with another
\* load
C35_Witness ==
    /\ Predicted
    /\ prediction.hoursAhead = 3
    /\ TrendApplies
    /\ Slope < 0
    /\ prediction.corrected.v < prediction.base


-----------------------------------------------------------------------------
(* Claims about AddEvent's effect on the cells *)

\* the event of the AddEvent call this step makes
LastIngested == ingested'[Len(ingested')].ev

\* C36: an ingest whose timestamp is not later than the LastUpdate of its
\* cell applies no decay to the cell, yet adds the load to WeightedSum, 1.0
\* to TotalWeight and 1 to Count and sets LastUpdate to the event's own,
\* possibly earlier, timestamp; the sums are decayed only when the time
\* since LastUpdate is strictly positive.
C36_NoDecayUnlessLater ==
    [][ingested' # ingested =>
           LET e == LastIngested
               old == stats[CellKey(e.Timestamp)]
               new == stats'[CellKey(e.Timestamp)]
               later == old.LastUpdate # ZeroTime /\ e.Timestamp > old.LastUpdate
           IN  /\ ~later =>
                      new = [LastUpdate |-> e.Timestamp,
                             WeightedSum |-> old.WeightedSum + e.Load * Scale,
                             TotalWeight |-> old.TotalWeight + Scale,
                             Count |-> old.Count + 1]
               /\ later =>
                      /\ new.TotalWeight < old.TotalWeight + Scale
                      /\ new.WeightedSum <= old.WeightedSum + e.Load * Scale
                      /\ new.Count = old.Count + 1
                      /\ new.LastUpdate = e.Timestamp]_vars

\* a cell took an event half an hour older than the one before: its
\* LastUpdate went back and nothing was decayed
C36_Witness ==
    /\ Len(ingested) >= 2
    /\ LET e == ingested[Len(ingested)].ev
           d == ingested[Len(ingested) - 1].ev
       IN  /\ CellKey(e.Timestamp) = CellKey(d.Timestamp)
           /\ e.Timestamp < d.Timestamp
           /\ CellOf(e).LastUpdate = e.Timestamp
           /\ CellOf(e).Count = Len(SameCell(e))
           /\ CellOf(e).TotalWeight = Len(SameCell(e)) * Scale


\* two events, the second later and of a higher load, on the same weekday
\* and hour and on no holiday, are all an empty Predictor has ingested
TwoRisingEvents ==
    /\ Len(ingested) = 2
    /\ LET e1 == ingested[1].ev
           e2 == ingested[2].ev
       IN  /\ e1.Load < e2.Load
           /\ e1.Timestamp < e2.Timestamp
           /\ GoWeekday(e1.Timestamp) = GoWeekday(e2.Timestamp)
           /\ Hour(e1.Timestamp) = Hour(e2.Timestamp)
           /\ getDayType(holidayChecker, e1.Timestamp) # Holiday
           /\ getDayType(holidayChecker, e2.Timestamp) # Holiday

\* the cell s holds two events whose weighted mean is above the plain mean
\* of the loads l1 < l2 and at most l2
MeanLeansToLater(s, l1, l2) ==
    /\ s.Count = 2
    /\ 2 * s.WeightedSum > (l1 + l2) * s.TotalWeight
    /\ s.WeightedSum <= l2 * s.TotalWeight

\* C37: after two events with loads l1 < l2 and timestamps t1 < t2 on the
\* same non-holiday weekday and hour are ingested into an empty Predictor,
\* the cell indexed by the DayType constant of that weekday (Monday = 0, ...,
\* Sunday = 6) and that hour has count 2 and a weighted mean strictly
\* greater than (l1 + l2) / 2 and at most l2.
C37_TwoEventsInWeekdayCell ==
    TwoRisingEvents =>
        LET e1 == ingested[1].ev
            e2 == ingested[2].ev
            dayType == DayTypeNamed(WeekdayName(e1.Timestamp))
        IN  MeanLeansToLater(stats[<<dayType, Hour(e1.Timestamp)>>],
                             e1.Load, e2.Load)


\* C38: AddEvent(event) changes exactly one cell, the one of the event's day
\* type and hour, and the recent window; the other 191 cells and the holiday
\* checker are as before (the tunables are constants).  PredictRange with
\* its Predict calls and GetTypicalLoad, as PredictLoad calls them, change
\* no state of the Predictor at all.
C38_IngestChangesOneCell ==
    [][/\ ingested' # ingested =>
              /\ {c \in DOMAIN stats : stats'[c] # stats[c]} =
                     {CellKey(LastIngested.Timestamp)}
              /\ Cardinality({c \in DOMAIN stats : stats'[c] = stats[c]}) = 191
              /\ Len(recentEvents') = Min(Len(recentEvents) + 1, maxRecentCount)
              /\ recentEvents'[Len(recentEvents')] = LastIngested
              /\ holidayChecker' = holidayChecker
       /\ (prediction' # prediction /\ prediction' # NoPrediction) =>
              /\ stats' = stats
              /\ recentEvents' = recentEvents
              /\ holidayChecker' = holidayChecker]_vars

\* PredictLoad has answered over a Predictor in which a later ingest left
\* the cell of another hour of the same day type as it was
C38_Witness ==
    /\ PredictedLoad
    /\ ~prediction.panic
    /\ Len(prediction.events) = 3
    /\ Len(ingested) >= 2
    /\ LET e == ingested[Len(ingested)].ev
           d == ingested[Len(ingested) - 1].ev
       IN  /\ CellKey(e.Timestamp) # CellKey(d.Timestamp)
           /\ CellKey(e.Timestamp)[1] = CellKey(d.Timestamp)[1]
           /\ d.Timestamp < e.Timestamp
           /\ CellOf(d).Count = 1
           /\ CellOf(d).TotalWeight = Scale


\* the number of events ingested into the cell c
IngestedInto(c) ==
    Cardinality({i \in 1 .. Len(ingested) :
                     CellKey(ingested[i].ev.Timestamp) = c})

\* the sum of the counts of the cells of the set S
RECURSIVE SumOfCounts(_)
SumOfCounts(S) ==
    IF S = {} THEN 0
    ELSE LET c == CHOOSE x \in S : TRUE
         IN  stats[c].Count + SumOfCounts(S \ {c})

\* C39: after any sequence of ingests the Count of every cell is the number
\* of events ingested into that cell, so that the counts of all cells sum to
\* the number of ingests; TotalWeight is 0 exactly when Count is 0, and
\* otherwise 1 <= TotalWeight <= Count.
C39_CountsAndWeights ==
    /\ \A c \in DOMAIN stats :
           /\ stats[c].Count = IngestedInto(c)
           /\ (stats[c].TotalWeight = 0) <=> (stats[c].Count = 0)
           /\ stats[c].Count > 0 =>
                  /\ Scale <= stats[c].TotalWeight
                  /\ stats[c].TotalWeight <= stats[c].Count * Scale
    /\ SumOfCounts({c \in DOMAIN stats : stats[c].Count > 0}) = Len(ingested)

\* three events went into two cells, and one cell holds two of them with a
\* decayed weight
C39_Witness ==
    /\ Len(ingested) = 3
    /\ \E c, d \in DOMAIN stats :
           /\ c # d
           /\ stats[c].Count = 2
           /\ stats[c].TotalWeight < 2 * Scale
           /\ stats[d].Count = 1
           /\ stats[d].TotalWeight = Scale


-----------------------------------------------------------------------------
(* Claims about the checker's time zone, checked under SpecZone *)

\* the month and day of the instant t in the checker's configured zone are
\* a holiday of the checker
HolidayInConfiguredZone(t) ==
    Date(Wall(t, cfg.timeLocation)) \in holidayChecker.fixedHolidays

\* C40: IsHoliday(instant) and HolidayTitle(instant) evaluate the month and
\* day of the instant in the checker's configured time zone: the same
\* instant gets the same answer whatever zone its representation carries,
\* and with a configured zone other than UTC a prediction target is
\* classified Holiday by its local date in that zone, not by its UTC date.
C40_HolidayByConfiguredZone ==
    /\ Checked =>
           /\ checked.IsHoliday = HolidayInConfiguredZone(checked.t)
           /\ checked.HolidayTitle =
                  HolidayTitle(holidayChecker,
                               Wall(checked.t, cfg.timeLocation))
    /\ Predicted =>
           prediction.IsHoliday = HolidayInConfiguredZone(prediction.TargetTime)

=============================================================================
